---- MODULE Spec2Model ----
(***************************************************************************)
(* A model of the V4A patch engine (apply-patch.ts): the sanitiser, the    *)
(* header repairer, the parser with its two loops, the context matcher,    *)
(* the commit builder and the applier.                                     *)
(*                                                                         *)
(* Representation.  A character is a TLA+ string: an ASCII character is    *)
(* itself, any other code point is written "U+XXXX".  A line is a sequence *)
(* of characters, and so is a text, where "<LF>" is the line feed and     *)
(* "<CR>" the carriage return; split and join convert between the two.     *)
(* Indices of the code are 0-based; the model keeps the code's 0-based     *)
(* values and adds 1 where it indexes a TLA+ sequence.                     *)
(***************************************************************************)
EXTENDS Integers, Sequences, FiniteSets, TLC

VARIABLES
    pc,        \* position of the running call
    fs,        \* the filesystem behind the read / write / remove callbacks
    text,      \* the patch text handed to process_patch
    orig,      \* the originals loaded by load_files (path -> text)
    parser,    \* the Parser object: lines, index, patch, fuzz
    upd,       \* the running parse_update_file activation
    commit,    \* the Commit built by patch_to_commit
    err,       \* the error thrown by the call, NoError while none
    calls,     \* the write / remove callback invocations, in order
    applied,   \* the number of changes of the commit already applied
    entry,     \* the function the caller invoked
    patchText, \* the standard input of the CLI
    blocks,    \* the patch blocks the caller's loop has still to process
    writeFn,   \* the write callback the caller supplied
    mLines, mCtx, mStart, mEof, mRes   \* one call of the context matcher

vars == <<pc, fs, text, orig, parser, upd, commit, err, calls, applied,
          entry, patchText, blocks, writeFn,
          mLines, mCtx, mStart, mEof, mRes>>

callerVars == <<entry, patchText, blocks, writeFn>>
pipeVars == <<fs, text, orig, parser, upd, commit, err, calls, applied,
              callerVars>>
matchVars == <<mLines, mCtx, mStart, mEof, mRes>>

-----------------------------------------------------------------------------
(* Bounds of the model.                                                    *)

MaxMatchLen == 3
MaxCtxLen == 2
MaxFileLen == 2
MaxHunkLen == 3
MaxDirectives == 2
MaxCliLines == 3

-----------------------------------------------------------------------------
(* Strings.                                                                *)

Min(a, b) == IF a < b THEN a ELSE b

\* The least element of the set S of integers, none when S is empty
MinOr(S, none) == IF S = {} THEN none ELSE CHOOSE i \in S : \A k \in S : i <= k

\* All sequences over S of length lo..hi.
SeqsOf(S, lo, hi) == UNION {[1..n -> S] : n \in lo..hi}

\* The characters String.prototype.trim / trimEnd remove: ECMAScript
\* WhiteSpace and LineTerminator.
WhiteSpace ==
    {" ", "<TAB>", "<LF>", "<CR>", "<VT>", "<FF>", "U+00A0", "U+1680",
     "U+2000", "U+2001", "U+2002", "U+2003", "U+2004", "U+2005", "U+2006",
     "U+2007", "U+2008", "U+2009", "U+200A", "U+2028", "U+2029", "U+202F",
     "U+205F", "U+3000", "U+FEFF"}

startsWith(s, p) == Len(s) >= Len(p) /\ SubSeq(s, 1, Len(p)) = p

\* s.slice(n)
slice(s, n) == SubSeq(s, n + 1, Len(s))

\* s.slice(a - 1, b) for 1-based a..b, cut at the end of s
substr(s, a, b) == SubSeq(s, a, Min(b, Len(s)))

RECURSIVE trimEnd(_)
trimEnd(s) ==
    IF s # <<>> /\ s[Len(s)] \in WhiteSpace
    THEN trimEnd(SubSeq(s, 1, Len(s) - 1))
    ELSE s

RECURSIVE trimStart(_)
trimStart(s) ==
    IF s # <<>> /\ s[1] \in WhiteSpace THEN trimStart(Tail(s)) ELSE s

trim(s) == trimStart(trimEnd(s))

-----------------------------------------------------------------------------
(* Unicode canonicalisation of find_context_core.                          *)

Dashes == {"-", "U+2010", "U+2011", "U+2012", "U+2013", "U+2014", "U+2015",
           "U+2212"}
DoubleQuotes == {"\"", "U+201C", "U+201D", "U+201E", "U+201F", "U+00AB",
                 "U+00BB"}
SingleQuotes == {"'", "U+2018", "U+2019", "U+201A", "U+201B"}
Spaces == {"U+00A0", "U+2002", "U+2003", "U+2004", "U+2005", "U+2006",
           "U+2007", "U+2008", "U+2009", "U+200A", "U+202F", "U+205F",
           "U+3000"}

\* PUNCT_EQUIV[c] ?? c
PUNCT_EQUIV(c) ==
    IF c \in Dashes THEN "-"
    ELSE IF c \in DoubleQuotes THEN "\""
    ELSE IF c \in SingleQuotes THEN "'"
    ELSE IF c \in Spaces THEN " "
    ELSE c

\* String.prototype.normalize("NFC") on the characters of the model: the
\* only decomposed pair among them is "e" followed by the combining acute
\* accent U+0301, which composes to U+00E9.
RECURSIVE normalizeNFC(_)
normalizeNFC(s) ==
    IF Len(s) < 2 THEN s
    ELSE IF s[1] = "e" /\ s[2] = "U+0301"
         THEN <<"U+00E9">> \o normalizeNFC(slice(s, 2))
         ELSE <<s[1]>> \o normalizeNFC(Tail(s))

\* The regular expression /./gu matches every code point but the line
\* terminators, which the callback therefore never sees.
LineTerminators == {"<LF>", "<CR>", "U+2028", "U+2029"}

replacePunct(n) ==
    [i \in 1..Len(n) |->
        IF n[i] \in LineTerminators THEN n[i] ELSE PUNCT_EQUIV(n[i])]

\* canon without the table of look-alikes
canon_without_table(s) == normalizeNFC(s)

canon(s) == replacePunct(normalizeNFC(s))

\* The element-level transforms of the four passes of find_context_core
transform(t, s) ==
    IF t = "identity" THEN s
    ELSE IF t = "trimEnd" THEN trimEnd(s)
    ELSE IF t = "trim" THEN trim(s)
    ELSE canon(s)

-----------------------------------------------------------------------------
(* The context matcher.                                                    *)

NoMatch == -1

\* The comparison of seekSequence: context matches lines at 0-based i
matchesAt(t, lines, context, i) ==
    \A j \in 0..(Len(context) - 1) :
        transform(t, lines[i + j + 1]) = transform(t, context[j + 1])

seekSequence(t, lines, context, start) ==
    MinOr({i \in start..(Len(lines) - Len(context)) :
              matchesAt(t, lines, context, i)}, NoMatch)

\* if (idx !== -1) return [idx, penalty]; otherwise the passes that follow
pass(idx, penalty, otherwise) ==
    IF idx # NoMatch THEN [idx |-> idx, fuzz |-> penalty] ELSE otherwise

find_context_core_swapped(lines, context, start) ==
    IF Len(context) = 0 THEN [idx |-> start, fuzz |-> 0]
    ELSE IF Len(context) > Len(lines) THEN [idx |-> NoMatch, fuzz |-> 0]
    ELSE pass(seekSequence("identity", lines, context, start), 0,
         pass(seekSequence("trim", lines, context, start), 100,
         pass(seekSequence("trimEnd", lines, context, start), 1,
         pass(seekSequence("canon", lines, context, start), 1000,
              [idx |-> NoMatch, fuzz |-> 0]))))

\* A matcher that compares at the cursor only, without scanning
atStart(start, t0, t1, t2, t3) ==
    IF t0 THEN [idx |-> start, fuzz |-> 0]
    ELSE IF t1 THEN [idx |-> start, fuzz |-> 1]
    ELSE IF t2 THEN [idx |-> start, fuzz |-> 100]
    ELSE IF t3 THEN [idx |-> start, fuzz |-> 1000]
    ELSE [idx |-> NoMatch, fuzz |-> 0]

find_context_core_at_start(lines, context, start) ==
    IF Len(context) = 0 THEN [idx |-> start, fuzz |-> 0]
    ELSE IF start + Len(context) > Len(lines)
    THEN [idx |-> NoMatch, fuzz |-> 0]
    ELSE atStart(start,
                 matchesAt("identity", lines, context, start),
                 matchesAt("trimEnd", lines, context, start),
                 matchesAt("trim", lines, context, start),
                 matchesAt("canon", lines, context, start))

find_context_core(lines, context, start) ==
    IF Len(context) = 0 THEN [idx |-> start, fuzz |-> 0]
    ELSE IF Len(context) > Len(lines) THEN [idx |-> NoMatch, fuzz |-> 0]
    ELSE pass(seekSequence("identity", lines, context, start), 0,
         pass(seekSequence("trimEnd", lines, context, start), 1,
         pass(seekSequence("trim", lines, context, start), 100,
         pass(seekSequence("canon", lines, context, start), 1000,
              [idx |-> NoMatch, fuzz |-> 0]))))

\* The +/-2 window of find_context: the number of context lines that are
\* exactly equal to the file lines at 0-based offset i.
matchCount(lines, context, i) ==
    Cardinality({j \in 0..(Len(context) - 1) :
                    lines[i + j + 1] = context[j + 1]})

\* The shifts in -2..2 whose offset is in range and reaches 80 %
\* (matchCount / context.length >= 0.8); the loop returns at the least.
windowShifts(lines, context, start) ==
    {s \in -2..2 :
        /\ start + s >= 0
        /\ start + s <= Len(lines) - Len(context)
        /\ 5 * matchCount(lines, context, start + s) >= 4 * Len(context)}

\* Lines 538-555: the fallback after the scan returned r
window(lines, context, start, r, shifts) ==
    IF r.idx = NoMatch /\ Len(context) > 0 /\ shifts # {}
    THEN [idx |-> start + MinOr(shifts, 0), fuzz |-> r.fuzz + 50000]
    ELSE r

\* Lines 531-533: the full scan with the EOF penalty
penalised(r) == [idx |-> r.idx, fuzz |-> r.fuzz + 10000]

\* Lines 524-533, atEnd the result of the search at the anchor
eofFirst(lines, context, start, atEnd) ==
    IF atEnd.idx # NoMatch THEN atEnd
    ELSE window(lines, context, start,
                penalised(find_context_core(lines, context, start)),
                windowShifts(lines, context, start))

find_context_unanchored(lines, context, start, eof) ==
    window(lines, context, start,
           find_context_core(lines, context, start),
           windowShifts(lines, context, start))

find_context(lines, context, start, eof) ==
    IF eof
    THEN eofFirst(lines, context, start,
             IF Len(lines) - Len(context) >= 0
             THEN find_context_core(lines, context,
                                    Len(lines) - Len(context))
             ELSE [idx |-> NoMatch, fuzz |-> 0])
    ELSE window(lines, context, start,
                find_context_core(lines, context, start),
                windowShifts(lines, context, start))

-----------------------------------------------------------------------------
(* The constants of src/parse-apply-patch, which apply-patch.ts imports.   *)
(* PATCH_PREFIX ends in a line feed and PATCH_SUFFIX starts with one: the  *)
(* code trims both wherever it compares them with a line, and process_patch*)
(* reports "Patch must start with *** Begin Patch\n".                      *)

PATCH_PREFIX == <<"*", "*", "*", " ", "B", "e", "g", "i", "n", " ", "P", "a", "t", "c", "h", "<LF>">>
PATCH_SUFFIX == <<"<LF>", "*", "*", "*", " ", "E", "n", "d", " ", "P", "a", "t", "c", "h">>
ADD_FILE_PREFIX == <<"*", "*", "*", " ", "A", "d", "d", " ", "F", "i", "l", "e", ":", " ">>
DELETE_FILE_PREFIX == <<"*", "*", "*", " ", "D", "e", "l", "e", "t", "e", " ", "F", "i", "l", "e", ":", " ">>
UPDATE_FILE_PREFIX == <<"*", "*", "*", " ", "U", "p", "d", "a", "t", "e", " ", "F", "i", "l", "e", ":", " ">>
MOVE_FILE_TO_PREFIX == <<"*", "*", "*", " ", "M", "o", "v", "e", " ", "t", "o", ":", " ">>
END_OF_FILE_PREFIX == <<"*", "*", "*", " ", "E", "n", "d", " ", "o", "f", " ", "F", "i", "l", "e">>
HUNK_ADD_LINE_PREFIX == <<"+">>

-----------------------------------------------------------------------------
(* Texts and lines.                                                        *)

\* lines.join("\n")
RECURSIVE join(_)
join(ls) ==
    IF ls = <<>> THEN <<>>
    ELSE IF Len(ls) = 1 THEN ls[1]
    ELSE ls[1] \o <<"<LF>">> \o join(Tail(ls))

\* text.split("\n")
RECURSIVE split(_)
split(cs) ==
    IF \A i \in 1..Len(cs) : cs[i] # "<LF>" THEN <<cs>>
    ELSE LET k == CHOOSE i \in 1..Len(cs) :
                     cs[i] = "<LF>" /\ \A j \in 1..(i - 1) : cs[j] # "<LF>"
         IN  <<SubSeq(cs, 1, k - 1)>> \o split(slice(cs, k))

\* text.replace(/\r?\n/g, "\n"): a carriage return goes only when a line
\* feed follows it.
withNext(cs) ==
    [i \in 1..Len(cs) |-> <<cs[i], IF i < Len(cs) THEN cs[i + 1] ELSE "">>]

notBeforeLF(c) == ~(c[1] = "<CR>" /\ c[2] = "<LF>")

firsts(ps) == [i \in 1..Len(ps) |-> ps[i][1]]

replaceCRLF(cs) == firsts(SelectSeq(withNext(cs), notBeforeLF))

\* tokenRegex = /^(\*\*\*|---|\+\+\+|@@|[ \+\-]).*/
tokenRegex(l) ==
    \/ startsWith(l, <<"*", "*", "*">>)
    \/ startsWith(l, <<"-", "-", "-">>)
    \/ startsWith(l, <<"+", "+", "+">>)
    \/ startsWith(l, <<"@", "@">>)
    \/ (l # <<>> /\ l[1] \in {" ", "+", "-"})

sanitize_without_trim(lines) == SelectSeq(lines, tokenRegex)

\* A sanitiser that trims both ends of each line it keeps
sanitize_trim_both(lines) ==
    [i \in 1..Len(SelectSeq(lines, tokenRegex)) |->
        trim(SelectSeq(lines, tokenRegex)[i])]

sanitize_patch_lines(lines) ==
    [i \in 1..Len(SelectSeq(lines, tokenRegex)) |->
        trimEnd(SelectSeq(lines, tokenRegex)[i])]

\* ctrlRegex = /[\x00-\x08\x0B-\x0C\x0E-\x1F]/g
ControlChars ==
    {"<0x00>", "<0x01>", "<0x02>", "<0x03>", "<0x04>", "<0x05>", "<0x06>",
     "<0x07>", "<0x08>", "<VT>", "<FF>", "<0x0E>", "<0x0F>", "<0x10>",
     "<0x11>", "<0x12>", "<0x13>", "<0x14>", "<0x15>", "<0x16>", "<0x17>",
     "<0x18>", "<0x19>", "<0x1A>", "<0x1B>", "<0x1C>", "<0x1D>", "<0x1E>",
     "<0x1F>"}

NotControl(c) == c \notin ControlChars

strip_control_chars(lines) ==
    [i \in 1..Len(lines) |-> SelectSeq(lines[i], NotControl)]

Digits == {"0", "1", "2", "3", "4", "5", "6", "7", "8", "9"}

\* The length of the run of digits of l that starts at 1-based position p.
RECURSIVE digitRun(_, _)
digitRun(l, p) ==
    IF p <= Len(l) /\ l[p] \in Digits THEN 1 + digitRun(l, p + 1) ELSE 0

\* (?:[ ,](\d+))? at 1-based position q: the length of the count, 0 when
\* the group does not match
optCount(l, q) ==
    IF q <= Len(l) /\ l[q] \in {" ", ","} THEN digitRun(l, q + 1) ELSE 0

\* The position after the optional group of m digits that starts at q
afterOpt(q, m) == IF m > 0 THEN q + 1 + m ELSE q

NoHeader == [ok |-> FALSE, start |-> <<>>, delCount |-> <<>>,
             insStart |-> <<>>, insCount |-> <<>>, sep1 |-> "", sep2 |-> ""]

\* hunkRegex = /^@@ -(\d+)(?:[ ,](\d+))? \+(\d+)(?:[ ,](\d+))? @@$/
\* The groups of the match, or ok = FALSE.  A count that is absent is <<>>;
\* sep1 and sep2 are the separators before the counts.  n1, m1, n2, m2 are
\* the lengths of the four groups, p2 the position of the third.
hunkGroups(l, n1, m1, p2, n2, m2) ==
    IF /\ startsWith(l, <<"@", "@", " ", "-">>)
       /\ n1 > 0
       /\ substr(l, p2 - 2, p2 - 1) = <<" ", "+">>
       /\ n2 > 0
       /\ slice(l, afterOpt(p2 + n2, m2) - 1) = <<" ", "@", "@">>
    THEN [ok |-> TRUE,
          start |-> SubSeq(l, 5, 4 + n1),
          delCount |-> SubSeq(l, 6 + n1, 5 + n1 + m1),
          insStart |-> SubSeq(l, p2, p2 + n2 - 1),
          insCount |-> SubSeq(l, p2 + n2 + 1, p2 + n2 + m2),
          sep1 |-> IF m1 > 0 THEN l[5 + n1] ELSE "",
          sep2 |-> IF m2 > 0 THEN l[p2 + n2] ELSE ""]
    ELSE NoHeader

hunkRegex3(l, n1, m1, p2, n2) ==
    hunkGroups(l, n1, m1, p2, n2, optCount(l, p2 + n2))

hunkRegex2(l, n1, m1, p2) == hunkRegex3(l, n1, m1, p2, digitRun(l, p2))

hunkRegex1(l, n1, m1) == hunkRegex2(l, n1, m1, afterOpt(5 + n1, m1) + 2)

hunkRegex0(l, n1) == hunkRegex1(l, n1, optCount(l, 5 + n1))

hunkRegex(l) == hunkRegex0(l, digitRun(l, 5))

orZero(count) == IF count = <<>> THEN <<"0">> ELSE count

\* The callback of lines.map in repair_hunk_headers, m the match
repairLine(l, m) ==
    IF ~m.ok THEN l
    ELSE <<"@", "@", " ", "-">> \o m.start \o <<",">> \o orZero(m.delCount)
         \o <<" ", "+">> \o m.insStart \o <<",">> \o orZero(m.insCount)
         \o <<" ", "@", "@">>

repair_hunk_headers(lines) ==
    [i \in 1..Len(lines) |-> repairLine(lines[i], hunkRegex(lines[i]))]

DigitValue(c) ==
    CASE c = "0" -> 0 [] c = "1" -> 1 [] c = "2" -> 2 [] c = "3" -> 3
      [] c = "4" -> 4 [] c = "5" -> 5 [] c = "6" -> 6 [] c = "7" -> 7
      [] c = "8" -> 8 [] c = "9" -> 9

\* parseInt(s, 10) of a string of digits
RECURSIVE parseInt(_)
parseInt(s) ==
    IF s = <<>> THEN 0
    ELSE 10 * parseInt(SubSeq(s, 1, Len(s) - 1)) + DigitValue(s[Len(s)])

-----------------------------------------------------------------------------
(* Errors.  A DiffError carries the condition that raised it; any other    *)
(* class is an error the engine did not mean to raise.                     *)

NoError == [class |-> "NoError", what |-> ""]
DiffError(what) == [class |-> "DiffError", what |-> what]
ReferenceError(name) == [class |-> "ReferenceError", what |-> name]

-----------------------------------------------------------------------------
(* peek_next_section.                                                      *)

\* The prefixes at which peek_next_section stops, after p.trim().
SectionEnds ==
    {<<"@", "@">>, trim(PATCH_SUFFIX), trim(UPDATE_FILE_PREFIX),
     trim(DELETE_FILE_PREFIX), trim(ADD_FILE_PREFIX),
     trim(END_OF_FILE_PREFIX)}

\* Lines 615-628 and 641-654: with additions or deletions pending, the
\* condition reads expectedDel, a variable of parse_update_file (lines
\* 195-196) that is not in scope in peek_next_section, so evaluating it
\* throws ReferenceError before the chunk is pushed.
emitChunk(st) ==
    IF st.insLines # <<>> \/ st.delLines # <<>>
    THEN [st EXCEPT !.err = ReferenceError("expectedDel")]
    ELSE st

\* Lines 596-611: the mode of line s
lineMode(s) ==
    IF s # <<>> /\ s[1] = "+" THEN "add"
    ELSE IF s # <<>> /\ s[1] = "-" THEN "delete"
    ELSE "keep"

\* Lines 595-613: s without its prefix; a line with none of the three
\* prefixes gets a space in front first
lineText(s) ==
    IF s # <<>> /\ s[1] \in {"+", "-", " "} THEN slice(s, 1)
    ELSE slice(<<" ">> \o s, 1)

\* Lines 629-639, on the state c after the chunk, if any, was emitted
pushLine(c, mode, line) ==
    IF c.err # NoError THEN c
    ELSE IF mode = "delete"
    THEN [c EXCEPT !.index = @ + 1, !.mode = mode,
                   !.delLines = Append(@, line), !.old = Append(@, line)]
    ELSE IF mode = "add"
    THEN [c EXCEPT !.index = @ + 1, !.mode = mode,
                   !.insLines = Append(@, line)]
    ELSE [c EXCEPT !.index = @ + 1, !.mode = mode, !.old = Append(@, line)]

\* Lines 614-631: the return to keep emits the pending chunk
turnToKeep(e) ==
    IF e.err # NoError THEN e
    ELSE [e EXCEPT !.delLines = <<>>, !.insLines = <<>>]

\* One iteration of the while loop of peek_next_section on line s.
peekLine(st, s) ==
    pushLine(IF lineMode(s) = "keep" /\ st.mode # "keep"
             THEN turnToKeep(emitChunk(st)) ELSE st,
             lineMode(s), lineText(s))

RECURSIVE peekLoop(_, _)
peekLoop(lines, st) ==
    IF st.err # NoError \/ st.index >= Len(lines) THEN st
    ELSE IF \E p \in SectionEnds : startsWith(lines[st.index + 1], p) THEN st
    ELSE IF lines[st.index + 1] = <<"*", "*", "*">> THEN st
    ELSE IF startsWith(lines[st.index + 1], <<"*", "*", "*">>)
         THEN [st EXCEPT !.err = DiffError("Invalid Line")]
    ELSE peekLoop(lines, peekLine(st, lines[st.index + 1]))

\* Lines 655-659: [old, chunks, index, eof], and err when the call throws
peekReturn(lines, st) ==
    IF st.err # NoError
    THEN [old |-> st.old, chunks |-> st.chunks, index |-> st.index,
          eof |-> FALSE, err |-> st.err]
    ELSE IF st.index < Len(lines) /\ lines[st.index + 1] = END_OF_FILE_PREFIX
    THEN [old |-> st.old, chunks |-> st.chunks, index |-> st.index + 1,
          eof |-> TRUE, err |-> NoError]
    ELSE [old |-> st.old, chunks |-> st.chunks, index |-> st.index,
          eof |-> FALSE, err |-> NoError]

\* Lines 641-654: the final chunk
peekFinal(st) == IF st.err # NoError THEN st ELSE emitChunk(st)

peek_next_section(lines, initialIndex) ==
    peekReturn(lines, peekFinal(peekLoop(lines,
        [index |-> initialIndex, old |-> <<>>, delLines |-> <<>>,
         insLines |-> <<>>, chunks |-> <<>>, mode |-> "keep",
         err |-> NoError])))

-----------------------------------------------------------------------------
(* The Parser.  A Patch is the sequence of its actions in insertion order, *)
(* each with its path; an absent move_path is the empty string, which the  *)
(* code treats alike (moveTo || undefined, if (change.move_path)).         *)

Idle == [lines |-> <<>>, index |-> 0, actions |-> <<>>, fuzz |-> 0]
NoUpdate == [path |-> <<>>, moveTo |-> <<>>, fileLines |-> <<>>, index |-> 0,
             chunks |-> <<>>, expectedDel |-> 0, expectedIns |-> 0]

is_done_untrimmed(p, prefixes) ==
    \/ p.index >= Len(p.lines)
    \/ \E x \in prefixes : startsWith(p.lines[p.index + 1], x)

\* Parser.is_done(prefixes)
is_done(p, prefixes) ==
    \/ p.index >= Len(p.lines)
    \/ \E x \in prefixes : startsWith(p.lines[p.index + 1], trim(x))

\* Parser.read_str(prefix): the text read and the index after it
read_str(p, prefix) ==
    IF p.index >= Len(p.lines)
    THEN [text |-> <<>>, index |-> p.index, err |-> DiffError("Index")]
    ELSE IF startsWith(p.lines[p.index + 1], prefix)
    THEN [text |-> slice(p.lines[p.index + 1], Len(prefix)),
          index |-> p.index + 1, err |-> NoError]
    ELSE [text |-> <<>>, index |-> p.index, err |-> NoError]

\* The property names every object literal inherits from Object.prototype;
\* patch.actions and the originals are object literals ({}), and both
\* obj[key] and (key in obj) look a key up along the prototype chain
ObjectPrototype ==
    {<<"c", "o", "n", "s", "t", "r", "u", "c", "t", "o", "r">>,
     <<"t", "o", "S", "t", "r", "i", "n", "g">>,
     <<"v", "a", "l", "u", "e", "O", "f">>,
     <<"h", "a", "s", "O", "w", "n", "P", "r", "o", "p", "e", "r", "t", "y">>,
     <<"i", "s", "P", "r", "o", "t", "o", "t", "y", "p", "e", "O", "f">>,
     <<"p", "r", "o", "p", "e", "r", "t", "y", "I", "s", "E", "n", "u", "m", "e", "r", "a", "b", "l", "e">>,
     <<"t", "o", "L", "o", "c", "a", "l", "e", "S", "t", "r", "i", "n", "g">>,
     <<"_", "_", "p", "r", "o", "t", "o", "_", "_">>,
     <<"_", "_", "d", "e", "f", "i", "n", "e", "G", "e", "t", "t", "e", "r", "_", "_">>,
     <<"_", "_", "d", "e", "f", "i", "n", "e", "S", "e", "t", "t", "e", "r", "_", "_">>,
     <<"_", "_", "l", "o", "o", "k", "u", "p", "G", "e", "t", "t", "e", "r", "_", "_">>,
     <<"_", "_", "l", "o", "o", "k", "u", "p", "S", "e", "t", "t", "e", "r", "_", "_">>}

hasAction_inherited(p, path) == path \in ObjectPrototype

\* this.patch.actions[path] is truthy
hasAction(p, path) ==
    \/ path \in ObjectPrototype
    \/ \E i \in 1..Len(p.actions) : p.actions[i].path = path

\* path in this.current_files
hasKey(files, path) == path \in ObjectPrototype \/ path \in DOMAIN files

DocumentEnds == {PATCH_SUFFIX}
UpdateEnds == {PATCH_SUFFIX, UPDATE_FILE_PREFIX, DELETE_FILE_PREFIX,
               ADD_FILE_PREFIX, END_OF_FILE_PREFIX}
AddEnds == {PATCH_SUFFIX, UPDATE_FILE_PREFIX, DELETE_FILE_PREFIX,
            ADD_FILE_PREFIX}

\* The loop of Parser.parse_add_file: the lines collected, the index after
\* them, and err when a line does not start with "+"
RECURSIVE addLoop(_, _)
addLoop(p, got) ==
    IF is_done(p, AddEnds)
    THEN [lines |-> got, index |-> p.index, err |-> NoError]
    ELSE IF ~startsWith(p.lines[p.index + 1], HUNK_ADD_LINE_PREFIX)
    THEN [lines |-> got, index |-> p.index + 1,
          err |-> DiffError("Invalid Add File Line")]
    ELSE addLoop([p EXCEPT !.index = @ + 1],
                 Append(got, slice(p.lines[p.index + 1], 1)))

addAction(path, r) ==
    [path |-> path, type |-> "add", new_file |-> join(r.lines),
     chunks |-> <<>>, move_path |-> <<>>]

\* canonLocal of parse_update_file: the same table as canon
canonLocal(s) == canon(s)

\* The comparisons of lines 287-305: canonLocal of both sides, after
\* trim() of both in the second pass
anchorEq(l, defStr, trimmed) ==
    IF trimmed THEN canonLocal(trim(l)) = canonLocal(trim(defStr))
    ELSE canonLocal(l) = canonLocal(defStr)

\* fileLines.slice(0, index).some(...)
anchorBefore(fileLines, index, defStr, trimmed) ==
    \E i \in 1..index : anchorEq(fileLines[i], defStr, trimmed)

\* An anchor search that looks at no line before the cursor
anchorFrom_ahead(fileLines, index, defStr, trimmed) ==
    MinOr({i \in index..(Len(fileLines) - 1) :
              anchorEq(fileLines[i + 1], defStr, trimmed)}, NoMatch)

\* The first 0-based i >= index whose line equals the anchor, or NoMatch;
\* the search is skipped when a line before the cursor equals it
anchorFrom(fileLines, index, defStr, trimmed) ==
    IF anchorBefore(fileLines, index, defStr, trimmed) THEN NoMatch
    ELSE MinOr({i \in index..(Len(fileLines) - 1) :
                   anchorEq(fileLines[i + 1], defStr, trimmed)}, NoMatch)

\* Lines 297-313, when the strict pass found nothing
anchorTrimmed(index, i2) ==
    IF i2 # NoMatch THEN [index |-> i2 + 1, fuzz |-> 1]
    ELSE [index |-> index, fuzz |-> 0]

\* Lines 284-313, i1 the result of the strict pass
anchorStrict(fileLines, index, defStr, i1) ==
    IF i1 # NoMatch THEN [index |-> i1 + 1, fuzz |-> 0]
    ELSE anchorTrimmed(index, anchorFrom(fileLines, index, defStr, TRUE))

\* Lines 228-314: the search of the text of an "@@ <text>" header from the
\* cursor index; the cursor after it and the fuzz it adds.
seekAnchor(fileLines, index, defStr) ==
    IF trim(defStr) = <<>> THEN [index |-> index, fuzz |-> 0]
    ELSE anchorStrict(fileLines, index, defStr,
                      anchorFrom(fileLines, index, defStr, FALSE))

\* /^@@ -(\d+),(\d+) \+(\d+),(\d+) @@$/ on "@@ " + defStr.trim(), m the
\* match of hunkRegex on it
strictCounts(m) ==
    IF m.ok /\ m.sep1 = "," /\ m.sep2 = ","
    THEN [del |-> parseInt(m.delCount), ins |-> parseInt(m.insCount)]
    ELSE [del |-> 0, ins |-> 0]

\* Lines 207-219: expectedDel and expectedIns after the header defStr
headerCounts(u, defStr) ==
    IF defStr = <<>>
    THEN [del |-> u.expectedDel, ins |-> u.expectedIns]
    ELSE strictCounts(hunkRegex(<<"@", "@", " ">> \o trim(defStr)))

rebase(chunks, by) ==
    [i \in 1..Len(chunks) |-> [chunks[i] EXCEPT !.orig_index = @ + by]]

\* Lines 326-340: after find_context returned found for the section sec
hunkFound(p, u, sec, found) ==
    IF found.idx = NoMatch
    THEN [parser |-> p, upd |-> u,
          err |-> DiffError(IF sec.eof THEN "Invalid EOF Context"
                            ELSE "Invalid Context")]
    ELSE [parser |-> [p EXCEPT !.index = sec.index, !.fuzz = @ + found.fuzz],
          upd |-> [u EXCEPT !.index = found.idx + Len(sec.old),
                            !.chunks = @ \o rebase(sec.chunks, found.idx)],
          err |-> NoError]

\* Lines 316-325: after peek_next_section returned sec
hunkSection(p, u, sec) ==
    IF sec.err # NoError THEN [parser |-> p, upd |-> u, err |-> sec.err]
    ELSE hunkFound(p, u, sec,
                   find_context(u.fileLines, sec.old, u.index, sec.eof))

\* Lines 228-316: the anchor moves the cursor and adds its fuzz
hunkAnchor(p, u, anchor) ==
    hunkSection([p EXCEPT !.fuzz = @ + anchor.fuzz],
                [u EXCEPT !.index = anchor.index],
                peek_next_section(p.lines, p.index))

\* Lines 220-227, p after the header was read; bare tells a line "@@"
hunkHeader(p, u, defStr, bare) ==
    IF ~(defStr # <<>> \/ bare \/ u.index = 0)
    THEN [parser |-> p, upd |-> u, err |-> DiffError("Invalid Line")]
    ELSE hunkAnchor([p EXCEPT !.index = IF bare THEN @ + 1 ELSE @], u,
                    seekAnchor(u.fileLines, u.index, defStr))

\* Lines 207-221, def the result of read_str("@@ ")
hunkRead(p, u, def) ==
    IF def.err # NoError THEN [parser |-> p, upd |-> u, err |-> def.err]
    ELSE hunkHeader([p EXCEPT !.index = def.index],
                    [u EXCEPT
                        !.expectedDel = headerCounts(u, def.text).del,
                        !.expectedIns = headerCounts(u, def.text).ins],
                    def.text,
                    /\ def.text = <<>>
                    /\ def.index < Len(p.lines)
                    /\ p.lines[def.index + 1] = <<"@", "@">>)

\* One iteration of the while loop of parse_update_file (lines 206-340):
\* the parser and the activation after it, and err when it throws.
parse_update_hunk(p, u) == hunkRead(p, u, read_str(p, <<"@", "@", " ">>))

-----------------------------------------------------------------------------
(* The commit builder.                                                     *)

\* A replay that does not compare the cursor with the chunk's orig_index
RECURSIVE replay_anyOrder(_, _, _, _, _)
replay_anyOrder(origLines, chunks, k, origIndex, dest) ==
    IF k > Len(chunks)
    THEN [lines |-> dest \o slice(origLines, Min(origIndex, Len(origLines))),
          err |-> NoError]
    ELSE IF chunks[k].orig_index > Len(origLines)
    THEN [lines |-> dest, err |-> DiffError("ChunkOutOfRange")]
    ELSE replay_anyOrder(origLines, chunks, k + 1,
                         chunks[k].orig_index + Len(chunks[k].del_lines),
                         dest \o SubSeq(origLines, origIndex + 1,
                                        chunks[k].orig_index)
                              \o chunks[k].ins_lines)

\* A replay whose cursor does not skip the chunk's del_lines
RECURSIVE replay_keep(_, _, _, _, _)
replay_keep(origLines, chunks, k, origIndex, dest) ==
    IF k > Len(chunks)
    THEN [lines |-> dest \o slice(origLines, Min(origIndex, Len(origLines))),
          err |-> NoError]
    ELSE replay_keep(origLines, chunks, k + 1,
                     Min(chunks[k].orig_index, Len(origLines)),
                     dest \o SubSeq(origLines, origIndex + 1,
                                    chunks[k].orig_index)
                          \o chunks[k].ins_lines)

\* The loop of _get_updated_file over the chunks from the k-th on, with
\* origIndex the cursor in origLines and dest the lines written so far.
RECURSIVE replay(_, _, _, _, _)
replay(origLines, chunks, k, origIndex, dest) ==
    IF k > Len(chunks)
    THEN [lines |-> dest \o slice(origLines, Min(origIndex, Len(origLines))),
          err |-> NoError]
    ELSE IF chunks[k].orig_index > Len(origLines)
    THEN [lines |-> dest, err |-> DiffError("ChunkOutOfRange")]
    ELSE IF origIndex > chunks[k].orig_index
    THEN [lines |-> dest, err |-> DiffError("ChunkOrderViolation")]
    ELSE replay(origLines, chunks, k + 1,
                chunks[k].orig_index + Len(chunks[k].del_lines),
                dest \o SubSeq(origLines, origIndex + 1, chunks[k].orig_index)
                     \o chunks[k].ins_lines)

joined(r) == [text |-> join(r.lines), err |-> r.err]

get_updated_file(txt, action) ==
    joined(replay(split(txt), action.chunks, 1, 0, <<>>))

\* The FileChange of patch_to_commit for action a; r is the result of
\* _get_updated_file for an Update
fileChange(a, originals, r) ==
    [path |-> a.path, type |-> a.type,
     old_content |-> IF a.type = "add" THEN <<>> ELSE originals[a.path],
     new_content |-> IF a.type = "add" THEN a.new_file
                     ELSE IF a.type = "update" THEN r.text ELSE <<>>,
     move_path |-> IF a.type = "update" THEN a.move_path ELSE <<>>]

\* patch_to_commit over the actions from the k-th on; a Commit is the
\* sequence of its changes in insertion order, each with its path.
RECURSIVE commitLoop(_, _, _, _)
commitStep(actions, originals, k, changes, r) ==
    IF r.err # NoError THEN [changes |-> changes, err |-> r.err]
    ELSE commitLoop(actions, originals, k + 1,
                    Append(changes, fileChange(actions[k], originals, r)))

commitLoop(actions, originals, k, changes) ==
    IF k > Len(actions) THEN [changes |-> changes, err |-> NoError]
    ELSE commitStep(actions, originals, k, changes,
             IF actions[k].type = "update"
             THEN get_updated_file(originals[actions[k].path], actions[k])
             ELSE [text |-> <<>>, err |-> NoError])

patch_to_commit(patch, originals) == commitLoop(patch, originals, 1, <<>>)

\* The body of the for loop of assemble_changes for the entry e of
\* updatedFiles and the value old of orig[p]; def is FALSE for undefined
assembleEntry(old, e, changes) ==
    IF old.def = e.def /\ (old.def => old.val = e.content) THEN changes
    ELSE IF old.def /\ e.def
    THEN Append(changes,
             [path |-> e.path, type |-> "update", old_content |-> old.val,
              new_content |-> e.content, move_path |-> <<>>])
    ELSE IF e.def
    THEN Append(changes,
             [path |-> e.path, type |-> "add", old_content |-> <<>>,
              new_content |-> e.content, move_path |-> <<>>])
    ELSE Append(changes,
             [path |-> e.path, type |-> "delete", old_content |-> old.val,
              new_content |-> <<>>, move_path |-> <<>>])

\* assemble_changes, updatedFiles as the sequence of its entries; orig[p]
\* is the file's content, a member inherited from Object.prototype, which
\* equals no content, or undefined
RECURSIVE assemble_changes(_, _)
assemble_changes(originals, updatedFiles) ==
    IF updatedFiles = <<>> THEN <<>>
    ELSE assembleEntry(
             IF updatedFiles[Len(updatedFiles)].path \in DOMAIN originals
             THEN [def |-> TRUE,
                   val |-> originals[updatedFiles[Len(updatedFiles)].path]]
             ELSE IF updatedFiles[Len(updatedFiles)].path \in ObjectPrototype
             THEN [def |-> TRUE, val |-> <<"[inherited]">>]
             ELSE [def |-> FALSE, val |-> <<>>],
             updatedFiles[Len(updatedFiles)],
             assemble_changes(originals,
                 SubSeq(updatedFiles, 1, Len(updatedFiles) - 1)))

-----------------------------------------------------------------------------
(* The pre-scan and the loader.                                            *)

RECURSIVE dedup(_)
addNew(rest, last) ==
    IF \E i \in 1..Len(rest) : rest[i] = last THEN rest
    ELSE Append(rest, last)

dedup(ps) ==
    IF ps = <<>> THEN <<>>
    ELSE addNew(dedup(SubSeq(ps, 1, Len(ps) - 1)), ps[Len(ps)])

RECURSIVE scanNeeded(_)
scanNeeded(lines) ==
    IF lines = <<>> THEN <<>>
    ELSE (IF startsWith(lines[1], UPDATE_FILE_PREFIX)
          THEN <<slice(lines[1], Len(UPDATE_FILE_PREFIX))>> ELSE <<>>)
         \o (IF startsWith(lines[1], DELETE_FILE_PREFIX)
             THEN <<slice(lines[1], Len(DELETE_FILE_PREFIX))>> ELSE <<>>)
         \o scanNeeded(Tail(lines))

\* identify_files_needed: the paths in the order the Set yields them
identify_files_needed(txt) == dedup(scanNeeded(split(trim(txt))))

exists(files, path) == path \in DOMAIN files

\* load_files with open_file as openFn
load_files(paths, files) ==
    IF \E i \in 1..Len(paths) : ~exists(files, paths[i])
    THEN [orig |-> <<>>, err |-> DiffError("File not found")]
    ELSE [orig |-> [q \in {paths[i] : i \in 1..Len(paths)} |-> files[q]],
          err |-> NoError]

\* path.isAbsolute on POSIX
isAbsolute(path) == startsWith(path, <<"/">>)

write(files, path, content) ==
    [q \in DOMAIN files \cup {path} |->
        IF q = path THEN content ELSE files[q]]

remove(files, path) == [q \in DOMAIN files \ {path} |-> files[q]]

-----------------------------------------------------------------------------
(* The block splitter of the CLI.                                          *)

NoBlock == [open |-> FALSE, lines |-> <<>>]
Unterminated == [class |-> "Error", what |-> "Unterminated patch block"]

\* The for loop of split_patch_blocks and the check after it; current is
\* null while current.open is FALSE
RECURSIVE blockLoop(_, _, _)
blockLoop(lines, current, found) ==
    IF lines = <<>>
    THEN [blocks |-> found,
          err |-> IF current.open THEN Unterminated ELSE NoError]
    ELSE IF startsWith(lines[1], PATCH_PREFIX)
    THEN blockLoop(Tail(lines), [open |-> TRUE, lines |-> <<lines[1]>>],
                   found)
    ELSE IF ~current.open THEN blockLoop(Tail(lines), current, found)
    ELSE IF startsWith(lines[1], PATCH_SUFFIX)
    THEN blockLoop(Tail(lines), NoBlock,
                   Append(found, join(Append(current.lines, lines[1]))))
    ELSE blockLoop(Tail(lines),
                   [current EXCEPT !.lines = Append(@, lines[1])], found)

\* split_patch_blocks: text.split(/\r?\n/), then the loop
split_patch_blocks(txt) == blockLoop(split(replaceCRLF(txt)), NoBlock, <<>>)

-----------------------------------------------------------------------------
(* process_patch as a state machine: pc is the position in lines 883-891   *)
(* and, inside text_to_patch, in the loops of the Parser.  A throw ends    *)
(* the call with the error in err.                                         *)

throw(e) == pc' = "done" /\ err' = e

\* process_patch, lines 883-887: the prefix check, the pre-scan, the loader
ProcessPatch ==
    /\ pc = "process_patch"
    /\ \E r \in {load_files(identify_files_needed(text), fs)} :
          IF ~startsWith(text, PATCH_PREFIX)
          THEN throw(DiffError("Patch must start with *** Begin Patch"))
               /\ orig' = orig
          ELSE IF r.err # NoError THEN throw(r.err) /\ orig' = orig
          ELSE pc' = "text_to_patch" /\ orig' = r.orig /\ err' = err
    /\ UNCHANGED <<fs, text, parser, upd, commit, calls, applied>>
    /\ UNCHANGED <<callerVars, matchVars>>

\* The lines text_to_patch hands to the Parser (lines 714-721)
patchLines(txt) ==
    repair_hunk_headers(strip_control_chars(sanitize_patch_lines(
        split(trim(replaceCRLF(txt))))))

\* text_to_patch, lines 714-738
TextToPatch ==
    /\ pc = "text_to_patch"
    /\ \E lines \in {patchLines(text)} :
          IF \/ Len(lines) < 2
             \/ ~startsWith(lines[1], trim(PATCH_PREFIX))
             \/ lines[Len(lines)] # trim(PATCH_SUFFIX)
          THEN throw(DiffError("Invalid patch text")) /\ parser' = parser
          ELSE /\ pc' = "parse"
               /\ parser' = [lines |-> lines, index |-> 1,
                             actions |-> <<>>, fuzz |-> 0]
               /\ err' = err
    /\ UNCHANGED <<fs, text, orig, upd, commit, calls, applied>>
    /\ UNCHANGED <<callerVars, matchVars>>

\* Lines 144-157 of Parser.parse, up to the call of parse_update_file;
\* u is the path read and mv the result of read_str(MOVE_FILE_TO_PREFIX)
updateDirective(u, mv) ==
    IF hasAction(parser, u.text)
    THEN throw(DiffError("Duplicate Path")) /\ UNCHANGED <<parser, upd>>
    ELSE IF mv.err # NoError THEN throw(mv.err) /\ UNCHANGED <<parser, upd>>
    ELSE IF ~hasKey(orig, u.text)
    THEN throw(DiffError("Missing File")) /\ UNCHANGED <<parser, upd>>
    ELSE /\ pc' = "parse_update_file"
         /\ parser' = [parser EXCEPT !.index = mv.index]
         /\ upd' = [path |-> u.text, moveTo |-> mv.text,
                    fileLines |-> split(orig[u.text]),
                    index |-> 0, chunks |-> <<>>,
                    expectedDel |-> 0, expectedIns |-> 0]
         /\ err' = err

\* Lines 159-169 of Parser.parse
deleteDirective(d) ==
    IF hasAction(parser, d.text)
    THEN throw(DiffError("Duplicate Path")) /\ UNCHANGED <<parser, upd>>
    ELSE IF ~hasKey(orig, d.text)
    THEN throw(DiffError("Missing File")) /\ UNCHANGED <<parser, upd>>
    ELSE /\ parser' = [parser EXCEPT
              !.index = d.index,
              !.actions = Append(@,
                  [path |-> d.text, type |-> "delete", new_file |-> <<>>,
                   chunks |-> <<>>, move_path |-> <<>>])]
         /\ UNCHANGED <<pc, upd, err>>

\* Lines 170-180 of Parser.parse, body the result of parse_add_file
addDirective(a, body) ==
    IF hasAction(parser, a.text)
    THEN throw(DiffError("Duplicate Path")) /\ UNCHANGED <<parser, upd>>
    ELSE IF hasKey(orig, a.text)
    THEN throw(DiffError("File already exists"))
         /\ UNCHANGED <<parser, upd>>
    ELSE IF body.err # NoError
    THEN throw(body.err) /\ UNCHANGED <<parser, upd>>
    ELSE /\ parser' = [parser EXCEPT
              !.index = body.index,
              !.actions = Append(@, addAction(a.text, body))]
         /\ UNCHANGED <<pc, upd, err>>

\* Lines 170-181 of Parser.parse, a the result of read_str(ADD_FILE_PREFIX)
addOrUnknown(a) ==
    IF a.err # NoError THEN throw(a.err) /\ UNCHANGED <<parser, upd>>
    ELSE IF a.text # <<>>
    THEN \E body \in {addLoop([parser EXCEPT !.index = a.index], <<>>)} :
             addDirective(a, body)
    ELSE throw(DiffError("Unknown Line")) /\ UNCHANGED <<parser, upd>>

\* Lines 159-181 of Parser.parse, d the result of
\* read_str(DELETE_FILE_PREFIX); a line that is a prefix and nothing more
\* is read past, and the next read_str starts at the line after it
otherDirective(d) ==
    IF d.err # NoError THEN throw(d.err) /\ UNCHANGED <<parser, upd>>
    ELSE IF d.text # <<>> THEN deleteDirective(d)
    ELSE addOrUnknown(read_str([parser EXCEPT !.index = d.index],
                               ADD_FILE_PREFIX))

\* One iteration of the while loop of Parser.parse (lines 143-182); for an
\* Update directive, up to the call of parse_update_file.
ParseDirective ==
    /\ pc = "parse"
    /\ ~is_done(parser, DocumentEnds)
    /\ \E u \in {read_str(parser, UPDATE_FILE_PREFIX)} :
          IF u.text # <<>>
          THEN \E mv \in {read_str([parser EXCEPT !.index = u.index],
                                   MOVE_FILE_TO_PREFIX)} :
                   updateDirective(u, mv)
          ELSE \E d \in {read_str([parser EXCEPT !.index = u.index],
                                  DELETE_FILE_PREFIX)} :
                   otherDirective(d)
    /\ UNCHANGED <<fs, text, orig, commit, calls, applied>>
    /\ UNCHANGED <<callerVars, matchVars>>

\* One iteration of the while loop of parse_update_file (lines 197-341)
ParseHunk ==
    /\ pc = "parse_update_file"
    /\ ~is_done(parser, UpdateEnds)
    /\ \E r \in {parse_update_hunk(parser, upd)} :
          /\ parser' = r.parser
          /\ upd' = r.upd
          /\ IF r.err # NoError THEN throw(r.err)
             ELSE UNCHANGED <<pc, err>>
    /\ UNCHANGED <<fs, text, orig, commit, calls, applied>>
    /\ UNCHANGED <<callerVars, matchVars>>

\* The return of parse_update_file and lines 155-157 of Parser.parse
ParseUpdateEnd ==
    /\ pc = "parse_update_file"
    /\ is_done(parser, UpdateEnds)
    /\ pc' = "parse"
    /\ parser' = [parser EXCEPT !.actions = Append(@,
                      [path |-> upd.path, type |-> "update",
                       new_file |-> <<>>, chunks |-> upd.chunks,
                       move_path |-> upd.moveTo])]
    /\ upd' = NoUpdate
    /\ UNCHANGED <<fs, text, orig, commit, err, calls, applied>>
    /\ UNCHANGED <<callerVars, matchVars>>

\* Lines 183-186 of Parser.parse and the return of text_to_patch
ParseEnd ==
    /\ pc = "parse"
    /\ is_done(parser, DocumentEnds)
    /\ IF ~startsWith(parser.lines[parser.index + 1], trim(PATCH_SUFFIX))
       THEN throw(DiffError("Missing End Patch")) /\ parser' = parser
       ELSE /\ pc' = IF entry = "text_to_patch" THEN "done"
                      ELSE "patch_to_commit"
            /\ parser' = [parser EXCEPT !.index = @ + 1]
            /\ err' = err
    /\ UNCHANGED <<fs, text, orig, upd, commit, calls, applied>>
    /\ UNCHANGED <<callerVars, matchVars>>

\* Line 889 of process_patch
PatchToCommit ==
    /\ pc = "patch_to_commit"
    /\ \E r \in {patch_to_commit(parser.actions, orig)} :
          IF r.err # NoError THEN throw(r.err) /\ commit' = commit
          ELSE /\ pc' = IF entry = "patch_to_commit" THEN "done"
                         ELSE "apply_commit"
               /\ commit' = r.changes /\ err' = err
    /\ UNCHANGED <<fs, text, orig, parser, upd, calls, applied>>
    /\ UNCHANGED <<callerVars, matchVars>>

writeCall(path, content) ==
    [op |-> "write", path |-> path, content |-> content]
removeCall(path) == [op |-> "remove", path |-> path, content |-> <<>>]

\* remove_file (lines 913-915): unlinkSync of a missing file throws an
\* Error that is not a DiffError
remove_file(files, log, path) ==
    IF exists(files, path)
    THEN [fs |-> remove(files, path), calls |-> Append(log, removeCall(path)),
          err |-> NoError]
    ELSE [fs |-> files, calls |-> Append(log, removeCall(path)),
          err |-> [class |-> "Error", what |-> "ENOENT"]]

\* write_file (lines 902-911)
write_file(files, log, path, content) ==
    IF isAbsolute(path)
    THEN [fs |-> files, calls |-> Append(log, writeCall(path, content)),
          err |-> DiffError("We do not support absolute paths.")]
    ELSE [fs |-> write(files, path, content),
          calls |-> Append(log, writeCall(path, content)), err |-> NoError]

\* A write callback of the caller's own: it stores the content and checks
\* nothing
store(files, log, path, content) ==
    [fs |-> write(files, path, content),
     calls |-> Append(log, writeCall(path, content)), err |-> NoError]

\* writeFn(p, c) in apply_commit: the callback process_patch was given
callWriteFn(fn, files, log, path, content) ==
    IF fn = "write_file" THEN write_file(files, log, path, content)
    ELSE store(files, log, path, content)

\* An applier that calls removeFn also after writeFn has thrown
thenRemove_always(w, path) == remove_file(w.fs, w.calls, path)

\* Lines 867-869: removeFn runs when writeFn returned
thenRemove(w, path) ==
    IF w.err # NoError THEN w ELSE remove_file(w.fs, w.calls, path)

\* The body of the for loop of apply_commit (lines 862-873) for change c
applyChange(fn, files, log, c) ==
    IF c.type = "delete" THEN remove_file(files, log, c.path)
    ELSE IF c.type = "update" /\ c.move_path # <<>>
    THEN thenRemove(callWriteFn(fn, files, log, c.move_path, c.new_content),
                    c.path)
    ELSE callWriteFn(fn, files, log, c.path, c.new_content)

\* One iteration of the for loop of apply_commit (lines 861-874)
ApplyChange ==
    /\ pc = "apply_commit"
    /\ applied < Len(commit)
    /\ \E r \in {applyChange(writeFn, fs, calls, commit[applied + 1])} :
          /\ fs' = r.fs
          /\ calls' = r.calls
          /\ applied' = applied + 1
          /\ IF r.err # NoError THEN throw(r.err)
             ELSE UNCHANGED <<pc, err>>
    /\ UNCHANGED <<text, orig, parser, upd, commit>>
    /\ UNCHANGED <<callerVars, matchVars>>

\* The return of apply_commit and of process_patch ("Done!"), to the loop
\* of the caller when there is one
ApplyDone ==
    /\ pc = "apply_commit"
    /\ applied = Len(commit)
    /\ pc' = IF entry \in {"cli", "loop"} THEN "loop" ELSE "done"
    /\ UNCHANGED <<fs, text, orig, parser, upd, commit, err, calls, applied>>
    /\ UNCHANGED <<callerVars, matchVars>>

\* The "end" handler of the CLI up to its loop (lines 951-957); an Error
\* of split_patch_blocks is not caught
Main ==
    /\ pc = "main"
    /\ \E r \in {split_patch_blocks(patchText)} :
          IF patchText = <<>>
          THEN throw([class |-> "Exit", what |-> "Please pass patch text"])
               /\ blocks' = blocks
          ELSE IF r.err # NoError THEN throw(r.err) /\ blocks' = blocks
          ELSE pc' = "loop" /\ blocks' = r.blocks /\ err' = err
    /\ UNCHANGED <<fs, text, orig, parser, upd, commit, calls, applied>>
    /\ UNCHANGED <<entry, patchText, writeFn, matchVars>>

\* One iteration of the loop over the blocks (lines 958-966), up to the
\* call of process_patch, which has its own Parser, Patch and Commit
NextBlock ==
    /\ pc = "loop"
    /\ blocks # <<>>
    /\ pc' = "process_patch"
    /\ text' = Head(blocks)
    /\ blocks' = Tail(blocks)
    /\ orig' = <<>> /\ parser' = Idle /\ upd' = NoUpdate
    /\ commit' = <<>> /\ applied' = 0
    /\ UNCHANGED <<fs, err, calls, entry, patchText, writeFn, matchVars>>

\* The end of the loop and of the CLI (line 968)
LoopDone ==
    /\ pc = "loop"
    /\ blocks = <<>>
    /\ pc' = "done"
    /\ UNCHANGED <<fs, text, orig, parser, upd, commit, err, calls, applied>>
    /\ UNCHANGED <<callerVars, matchVars>>

-----------------------------------------------------------------------------
(* The calls of process_patch the model explores.                          *)

Begin == trim(PATCH_PREFIX)
End == trim(PATCH_SUFFIX)
EndOfFile == END_OF_FILE_PREFIX
pathA == <<"a">>
pathB == <<"b">>

\* A filesystem holding the one file a with the given lines
oneFile(ls) == [q \in {pathA} |-> join(ls)]

\* The text of a patch with one Update of file a
updateText(body) ==
    join(<<Begin, UPDATE_FILE_PREFIX \o pathA>> \o body \o <<End>>)

\* Hunk structure: context, deletion, insertion, a context line without its
\* space, a bare header and a stray "***" against files of two letters.
FilePoolA == {<<"x">>, <<"y">>}
BodyPoolA == {<<" ", "x">>, <<"-", "y">>, <<"+", "z">>, <<"x">>,
              <<"@", "@">>, <<"*", "*", "*">>}

InitA ==
    \E ls \in SeqsOf(FilePoolA, 1, MaxFileLen) :
        /\ fs = oneFile(ls)
        /\ \/ \E body \in SeqsOf(BodyPoolA, 0, MaxHunkLen),
                 tail \in {<<>>, <<EndOfFile>>} :
                  text = updateText(body \o tail)
           \/ \E pre \in {<<" ", "x">>, <<" ", "y">>},
                 post \in SeqsOf({<<"@", "@">>, <<" ", "x">>, <<" ", "y">>,
                                  EndOfFile}, 0, MaxCtxLen) :
                  text = updateText(<<pre, EndOfFile>> \o post)

\* Tolerance: file lines and context lines that differ by trailing
\* whitespace, leading whitespace or a dash look-alike.
FilePoolB == {<<"-">>, <<"-", " ">>, <<" ", "-">>, <<"U+2014">>,
              <<"U+00A0", "-">>}
BodyPoolB == {<<" ", "-">>, <<" ", " ", "-">>, <<" ", "U+2014">>}

InitB ==
    \E ls \in SeqsOf(FilePoolB, 1, MaxFileLen),
       body \in SeqsOf(BodyPoolB, 1, MaxCtxLen),
       tail \in {<<>>, <<EndOfFile>>} :
        /\ fs = oneFile(ls)
        /\ text = updateText(body \o tail)

\* Documents of several directives over the files a and b.
BlockPool ==
    {<<UPDATE_FILE_PREFIX \o pathA, <<" ", "x">> >>,
     <<UPDATE_FILE_PREFIX \o pathA, MOVE_FILE_TO_PREFIX \o pathB,
       <<" ", "x">> >>,
     <<UPDATE_FILE_PREFIX \o pathA, MOVE_FILE_TO_PREFIX \o pathA,
       <<" ", "x">> >>,
     <<DELETE_FILE_PREFIX \o pathA>>,
     <<DELETE_FILE_PREFIX \o pathB>>,
     <<ADD_FILE_PREFIX \o pathB, <<"+", "z">> >>,
     <<ADD_FILE_PREFIX \o pathB, <<"-", "z">> >>}

RECURSIVE flatten(_)
flatten(ds) ==
    IF ds = <<>> THEN <<>> ELSE ds[1] \o flatten(Tail(ds))

InitC ==
    \E ds \in SeqsOf(BlockPool, 1, MaxDirectives),
       files \in {{pathA}, {pathA, pathB}} :
        /\ fs = [q \in files |-> <<"x">>]
        /\ text = join(<<Begin>> \o flatten(ds) \o <<End>>)

\* Context displaced from the cursor: the region r after two blank lines
\* (scenario S4), and twice after three other lines (scenario S5).
InitE ==
    \E r \in SeqsOf(FilePoolA, 1, MaxCtxLen),
       twice \in BOOLEAN :
        /\ fs = oneFile(IF twice
                        THEN << <<"w">>, <<"w">>, <<"w">> >> \o r \o r
                        ELSE << <<>>, <<>> >> \o r)
        /\ text = updateText([i \in 1..Len(r) |-> <<" ">> \o r[i]])

\* Texts process_patch and text_to_patch reject or normalise: no prefix,
\* carriage returns, text after the suffix.
InitD ==
    /\ fs = oneFile(<< <<"x">> >>)
    /\ text \in
         {<<" ">> \o updateText(<< <<" ", "x">> >>),
          updateText(<< <<" ", "x">> >>) \o <<"<LF>">>,
          updateText(<< <<" ", "x">> >>) \o <<"<LF>", "x">>,
          updateText(<< <<" ", "x", "<CR>">> >>),
          Begin \o <<"<LF>">> \o ADD_FILE_PREFIX \o pathB
              \o <<"<CR>", "<LF>", "+", "z", "<CR>">> \o PATCH_SUFFIX,
          Begin \o PATCH_SUFFIX,
          PATCH_PREFIX,
          Begin \o <<"<LF>">> \o UPDATE_FILE_PREFIX \o pathA
              \o <<" ", "<LF>", " ", "x">> \o PATCH_SUFFIX,
          Begin \o <<"<LF>">> \o DELETE_FILE_PREFIX \o pathA
              \o <<"<CR>">> \o PATCH_SUFFIX}

\* The empty patch against any set of files.
EmptyPatch == Begin \o PATCH_SUFFIX

InitF ==
    \E files \in SUBSET {pathA, pathB}, c \in {<<"x">>, <<>>} :
        /\ fs = [q \in files |-> c]
        /\ text = EmptyPatch

\* Absolute and relative write targets: the path added, the path updated
\* and the path moved to.
absA == <<"/", "a">>
absB == <<"/", "b">>
AbsPool ==
    {<<ADD_FILE_PREFIX \o absB, <<"+", "z">> >>,
     <<ADD_FILE_PREFIX \o pathB, <<"+", "z">> >>,
     <<UPDATE_FILE_PREFIX \o absA, <<" ", "x">> >>,
     <<UPDATE_FILE_PREFIX \o pathA, MOVE_FILE_TO_PREFIX \o absB,
       <<" ", "x">> >>,
     <<UPDATE_FILE_PREFIX \o pathA, MOVE_FILE_TO_PREFIX \o pathB,
       <<" ", "x">> >>}

InitAbs ==
    \E ds \in SeqsOf(AbsPool, 1, MaxDirectives) :
        /\ fs = [q \in {pathA, absA} |-> <<"x">>]
        /\ text = join(<<Begin>> \o flatten(ds) \o <<End>>)

\* One call of process_patch, with write_file or with a callback of the
\* caller's own
InitProcess ==
    /\ pc = "process_patch" /\ entry = "process_patch"
    /\ \/ /\ InitA \/ InitB \/ InitC \/ InitD \/ InitE \/ InitF
          /\ writeFn = "write_file"
       \/ /\ InitAbs
          /\ writeFn \in {"write_file", "store"}
    /\ orig = <<>> /\ patchText = <<>> /\ blocks = <<>>

\* Directives over the paths a, b and a path that is a property name of
\* Object.prototype, against any originals over a and b.
pathC == <<"c", "o", "n", "s", "t", "r", "u", "c", "t", "o", "r">>
DirectivePool ==
    {<<UPDATE_FILE_PREFIX \o pathA, <<" ", "x">> >>,
     <<DELETE_FILE_PREFIX \o pathA>>,
     <<ADD_FILE_PREFIX \o pathA, <<"+", "z">> >>,
     <<DELETE_FILE_PREFIX \o pathB>>,
     <<ADD_FILE_PREFIX \o pathB, <<"+", "z">> >>,
     <<UPDATE_FILE_PREFIX \o pathC, <<" ", "x">> >>,
     <<ADD_FILE_PREFIX \o pathC, <<"+", "z">> >>}

InitP1 ==
    \E ds \in SeqsOf(DirectivePool, 0, MaxDirectives),
       files \in SUBSET {pathA, pathB} :
        /\ orig = [q \in files |-> <<"x">>]
        /\ text = join(<<Begin>> \o flatten(ds) \o <<End>>)

\* Recovered deviations: hunk headers with and without typos, anchors met
\* exactly, by folding and by trimming, context lines with trailing white
\* space and with a dash look-alike; hunks of context, deleted and
\* inserted lines under a header with typos; lines of white space only,
\* with control characters, and lines that are no tokens of the format;
\* one patch with each of the three line endings; hunks that are an
\* "@@ <text>" header only, over files that hold the text more than once.
HeaderPool ==
    {<<"@", "@", " ", "-", "1", " ", "+", "1", " ", "@", "@">>,
     <<"@", "@", " ", "-", "1", " ", "1", " ", "+", "1", " ", "1", " ", "@", "@">>,
     <<"@", "@", " ", "-", "1", ",", "1", " ", "+", "1", ",", "1", " ", "@", "@">>,
     <<"@", "@", " ", "-">>,
     <<"@", "@", " ", "U+2014">>,
     <<"@", "@", " ", " ", "-">>}
CtxPool == {<<" ", "x">>, <<" ", "x", " ">>, <<" ", "x", "<TAB>">>,
            <<" ", "-">>, <<" ", "U+2014">>}
FilePoolP == {<<"x">>, <<"x", " ">>, <<"U+2014">>}

InitP2 ==
    \/ \E ls \in SeqsOf(FilePoolP, 1, MaxFileLen),
          hdr \in SeqsOf(HeaderPool, 0, 1),
          ctx \in SeqsOf(CtxPool, 1, MaxCtxLen) :
           /\ orig = oneFile(ls)
           /\ text = updateText(hdr \o ctx)
    \/ \E hdr \in {<<"@", "@", " ", "-", "1", " ", "+", "1", " ", "@", "@">>,
                    <<"@", "@", " ", "-", "3", " ", "+", "3", " ", "@", "@">>,
                    <<"@", "@", " ", "-", "1", " ", "1", " ", "+", "1", ",",
                      "1", " ", "@", "@">>},
          body \in SeqsOf({<<" ", "x">>, <<"-", "x">>, <<"+", "z">>},
                          1, MaxHunkLen) :
           /\ orig = oneFile(<< <<"x">> >>)
           /\ text = updateText(<<hdr>> \o body)
    \/ \E body \in SeqsOf({<<" ", "x">>, <<" ">>, <<" ", "<VT>", "x">>,
                           <<" ", "x", " ", "<0x01>">>, <<" ", "<0x01>">>,
                           <<"y">>}, 1, MaxHunkLen) :
           /\ orig = oneFile(<< <<"x">> >>)
           /\ text = updateText(body)
    \/ \E e \in {<<"<LF>">>, <<"<CR>", "<LF>">>, <<"<CR>">>} :
           /\ orig = oneFile(<< <<"x">> >>)
           /\ text = Begin \o e \o UPDATE_FILE_PREFIX \o pathA \o e
                         \o <<" ", "x">> \o e \o End
    \/ \E ls \in SeqsOf({<<"x">>, <<" ", "x">>, <<"U+2014">>},
                         1, MaxFileLen),
          hdrs \in SeqsOf({<<"@", "@", " ", "x">>, <<"@", "@", " ", " ", "x">>,
                           <<"@", "@", " ", "-">>}, 1, MaxCtxLen) :
           /\ orig = oneFile(ls)
           /\ text = updateText(hdrs)
    \/ \E body \in SeqsOf({<<"+", "z">>, <<"+", "z", " ">>, <<"+">>,
                           <<"y">>, <<" ", "x">>, <<"-", "z">>},
                          0, MaxCtxLen) :
           /\ orig = <<>>
           /\ text = join(<<Begin, ADD_FILE_PREFIX \o pathB>> \o body
                            \o <<End>>)

\* One call of text_to_patch
InitParse ==
    /\ pc = "text_to_patch" /\ entry = "text_to_patch"
    /\ InitP1 \/ InitP2
    /\ fs = <<>> /\ patchText = <<>> /\ blocks = <<>>
    /\ writeFn = "write_file"

\* A caller that hands two patches to process_patch in sequence, as the
\* loop of the CLI does with its blocks: Add File p with the content C,
\* then Delete File p, on an empty filesystem.
ContentPool == {<<"z">>, <<"z", " ">>, <<>>}
addText(path, C) ==
    join(<<Begin, ADD_FILE_PREFIX \o path>>
         \o [i \in 1..Len(C) |-> HUNK_ADD_LINE_PREFIX \o C[i]] \o <<End>>)
deleteText(path) == join(<<Begin, DELETE_FILE_PREFIX \o path, End>>)

InitLoop ==
    /\ pc = "loop" /\ entry = "loop"
    /\ \E path \in {pathA, pathC}, C \in SeqsOf(ContentPool, 0, MaxFileLen) :
          blocks = <<addText(path, C), deleteText(path)>>
    /\ fs = <<>> /\ text = <<>> /\ orig = <<>> /\ patchText = <<>>
    /\ writeFn = "write_file"

\* The CLI on a standard input of marker lines and other lines.
CliPool == {Begin, End, ADD_FILE_PREFIX \o pathB, <<"+", "z">>}

InitCli ==
    /\ pc = "main" /\ entry = "cli"
    /\ \/ patchText = <<>>
       \/ \E ls \in SeqsOf(CliPool, 1, MaxCliLines) : patchText = join(ls)
    /\ fs = oneFile(<< <<"x">> >>) /\ text = <<>> /\ orig = <<>>
    /\ blocks = <<>> /\ writeFn = "write_file"

\* A caller of the exported patch_to_commit hands it a Patch of one Update of
\* file a and the originals: each chunk inserts z, deletes a line x or
\* replaces it, at any index up to one past the end of the file.
InitCommit ==
    /\ pc = "patch_to_commit" /\ entry = "patch_to_commit"
    /\ \E ls \in SeqsOf(FilePoolA, 1, MaxFileLen),
          cs \in SeqsOf([orig_index : 0..(MaxFileLen + 1),
                         del_lines : {<<>>, <<<<"x">>>>},
                         ins_lines : {<<>>, <<<<"z">>>>}]
                          \ {[orig_index |-> i, del_lines |-> <<>>,
                               ins_lines |-> <<>>] : i \in 0..(MaxFileLen + 1)},
                        0, MaxDirectives) :
          /\ orig = oneFile(ls)
          /\ parser = [Idle EXCEPT !.actions =
                         <<[path |-> pathA, type |-> "update",
                            new_file |-> <<>>, chunks |-> cs,
                            move_path |-> <<>>]>>]
    /\ fs = <<>> /\ text = <<>> /\ patchText = <<>> /\ blocks = <<>>
    /\ writeFn = "write_file"

Init ==
    /\ \/ /\ InitProcess \/ InitParse \/ InitLoop \/ InitCli
          /\ parser = Idle
       \/ InitCommit
    /\ upd = NoUpdate /\ commit = <<>>
    /\ err = NoError /\ calls = <<>> /\ applied = 0
    /\ mLines = <<>> /\ mCtx = <<>> /\ mStart = 0 /\ mEof = FALSE
    /\ mRes = [idx |-> -2, fuzz |-> 0]

Next ==
    \/ ProcessPatch
    \/ TextToPatch
    \/ ParseDirective
    \/ ParseHunk
    \/ ParseUpdateEnd
    \/ ParseEnd
    \/ PatchToCommit
    \/ ApplyChange
    \/ ApplyDone
    \/ Main
    \/ NextBlock
    \/ LoopDone

Spec == Init /\ [][Next]_vars

-----------------------------------------------------------------------------
(* One call of the matcher on inputs drawn from bounded sets.              *)

NoResult == [idx |-> -2, fuzz |-> 0]
\* Lines that differ pairwise by trailing whitespace, leading whitespace
\* and a punctuation look-alike, and the blank line.
MatchPool == {<<"-">>, <<"-", " ">>, <<" ", "-">>, <<"U+2014">>, <<>>}

\* Lines that differ by the kind of their leading white space.
SpacePool == {<<" ", "-">>, <<"U+00A0", "-">>, <<"-">>}

MatchInit ==
    /\ pc = "m_start"
    /\ \/ /\ mLines \in SeqsOf(MatchPool, 1, MaxMatchLen)
          /\ mCtx \in SeqsOf(MatchPool, 0, MaxCtxLen)
       \/ /\ mLines \in SeqsOf(SpacePool, 1, MaxCtxLen)
          /\ mCtx \in SeqsOf(SpacePool, 1, MaxCtxLen)
    /\ mStart \in 0..MaxMatchLen
    /\ mStart <= Len(mLines)
    /\ mEof \in BOOLEAN
    /\ mRes = NoResult
    /\ fs = <<>> /\ text = <<>> /\ orig = <<>> /\ parser = Idle
    /\ upd = NoUpdate /\ commit = <<>> /\ err = NoError /\ calls = <<>>
    /\ applied = 0
    /\ entry = "matcher" /\ patchText = <<>> /\ blocks = <<>>
    /\ writeFn = "write_file"

CallFindContextCore ==
    /\ pc = "m_start"
    /\ ~mEof
    /\ pc' = "m_core"
    /\ mRes' = find_context_core(mLines, mCtx, mStart)
    /\ UNCHANGED <<mLines, mCtx, mStart, mEof>>
    /\ UNCHANGED pipeVars

CallFindContext ==
    /\ pc = "m_start"
    /\ pc' = "m_find"
    /\ mRes' = find_context(mLines, mCtx, mStart, mEof)
    /\ UNCHANGED <<mLines, mCtx, mStart, mEof>>
    /\ UNCHANGED pipeVars

MatchNext == CallFindContextCore \/ CallFindContext

SpecMatch == MatchInit /\ [][MatchNext]_vars

-----------------------------------------------------------------------------
(* Properties of the matcher, checked under SpecMatch.                     *)

\* The positions of [mStart, Len(mLines) - Len(mCtx)] at which every line
\* of mCtx equals the line of mLines under t
hitsUnder(t) ==
    {i \in mStart..(Len(mLines) - Len(mCtx)) :
        \A j \in 1..Len(mCtx) :
            transform(t, mLines[i + j]) = transform(t, mCtx[j])}

least(S) == CHOOSE i \in S : \A k \in S : i <= k

\* The pair a ladder over the four sets of positions returns
ladder(h0, h1, h2, h3) ==
    IF h0 # {} THEN [idx |-> least(h0), fuzz |-> 0]
    ELSE IF h1 # {} THEN [idx |-> least(h1), fuzz |-> 1]
    ELSE IF h2 # {} THEN [idx |-> least(h2), fuzz |-> 100]
    ELSE IF h3 # {} THEN [idx |-> least(h3), fuzz |-> 1000]
    ELSE [idx |-> -1, fuzz |-> 0]

scanLadder ==
    ladder(hitsUnder("identity"), hitsUnder("trimEnd"), hitsUnder("trim"),
           hitsUnder("canon"))

\* C7: for a non-empty context find_context_core returns the smallest
\* index of [start, len(lines) - len(context)] that matches under the
\* lowest rung that matches anywhere in that range, with that rung's
\* penalty (0, 1, 100, 1000), and index -1 when no rung matches.
C7_Ladder ==
    (pc = "m_core" /\ mCtx # <<>>) =>
        /\ mRes.idx = scanLadder.idx
        /\ mRes.idx # -1 => mRes.fuzz = scanLadder.fuzz

\* A call that matched on rung 4 only, past the start of the range
C7_Witness ==
    /\ pc = "m_core" /\ mCtx # <<>>
    /\ mRes.fuzz = 1000 /\ mRes.idx > mStart

\* The context matches at the terminal anchor under t
anchorUnder(t) ==
    /\ Len(mLines) - Len(mCtx) >= 0
    /\ \A j \in 1..Len(mCtx) :
          transform(t, mLines[Len(mLines) - Len(mCtx) + j])
              = transform(t, mCtx[j])

anchorLadder ==
    IF anchorUnder("identity") THEN 0
    ELSE IF anchorUnder("trimEnd") THEN 1
    ELSE IF anchorUnder("trim") THEN 100
    ELSE IF anchorUnder("canon") THEN 1000
    ELSE -1

\* C8: with eof set, find_context returns the terminal anchor
\* len(lines) - len(context) with the penalty of the lowest rung that
\* matches there; when no rung matches there and the scan from start
\* matches, it returns the scan's index with the rung's penalty plus 10000.
C8_EofAnchor ==
    (pc = "m_find" /\ mEof) =>
        IF anchorLadder # -1
        THEN mRes = [idx |-> Len(mLines) - Len(mCtx), fuzz |-> anchorLadder]
        ELSE scanLadder.idx # -1 =>
                /\ mRes = [idx |-> scanLadder.idx,
                           fuzz |-> scanLadder.fuzz + 10000]
                /\ mRes.fuzz >= 10000

\* An eof call whose context matches mid-file only
C8_Witness ==
    /\ pc = "m_find" /\ mEof /\ mCtx # <<>>
    /\ anchorLadder = -1
    /\ mRes.idx # -1 /\ mRes.idx < Len(mLines) - Len(mCtx)
    /\ mRes.fuzz >= 10000 /\ mRes.fuzz < 50000

\* Scenario S4: the file is the context's text after 2 blank lines, and
\* the cursor is at the top
S4 ==
    /\ mCtx # <<>>
    /\ mLines = << <<>>, <<>> >> \o mCtx
    /\ mStart = 0

\* C9, as stated: in scenario S4 the context is located through rung 5,
\* with fuzz >= 50000.
C9_ViaRung5 == (pc = "m_find" /\ S4) => mRes.fuzz >= 50000

\* C9, amended: in scenario S4 find_context locates the context by the
\* exact comparison of rung 1, at an index of at most 2 and with fuzz 0;
\* the window of rung 5 is not consulted.
C9_ViaRung1 ==
    (pc = "m_find" /\ S4) =>
        /\ mRes.fuzz = 0
        /\ mRes.idx \in 0..2
        /\ SubSeq(mLines, mRes.idx + 1, mRes.idx + Len(mCtx)) = mCtx
        /\ mEof => mRes.idx = 2

\* S4 with a context that is not blank, found 2 lines below the cursor
C9_Witness ==
    /\ pc = "m_find" /\ S4 /\ ~mEof
    /\ mCtx[1] # <<>>
    /\ mRes = [idx |-> 2, fuzz |-> 0]

\* Lines a and b differ only by characters the table maps to the same
\* ASCII character
punctOnly(a, b) ==
    /\ Len(a) = Len(b)
    /\ \A k \in 1..Len(a) : PUNCT_EQUIV(a[k]) = PUNCT_EQUIV(b[k])

\* The positions from the cursor on where the context differs from the file
\* lines by such characters only, and does differ
punctHits ==
    {i \in mStart..(Len(mLines) - Len(mCtx)) :
        /\ \A j \in 1..Len(mCtx) : punctOnly(mLines[i + j], mCtx[j])
        /\ \E j \in 1..Len(mCtx) : mLines[i + j] # mCtx[j]}

\* C10, as stated: a context that differs from the file lines at one
\* position only by characters of the table, and matches at no other
\* position, is located at that position with fuzz >= 1000.
C10_FuzzAtLeast1000 ==
    (/\ pc = "m_core" /\ mCtx # <<>>
     /\ Cardinality(punctHits) = 1
     /\ hitsUnder("trim") \cup hitsUnder("canon") \subseteq punctHits) =>
        /\ mRes.idx \in punctHits
        /\ mRes.fuzz >= 1000

\* C10, amended: when the context differs from the file lines at a
\* position at or after the cursor only by characters of the table,
\* find_context_core returns a match with fuzz at most 1000.  The fuzz is
\* 1000, and the match at or before the first such position, exactly when
\* no position of the range matches under rungs 1-3; otherwise the lowest
\* rung that matches decides, with fuzz 0, 1 or 100: 100 when the
\* characters are white space that trim removes.
C10_UnicodeLocated ==
    (pc = "m_core" /\ mCtx # <<>> /\ punctHits # {}) =>
        /\ mRes.idx # -1
        /\ mRes.fuzz <= 1000
        /\ mRes.fuzz = 1000 <=>
              /\ hitsUnder("identity") = {}
              /\ hitsUnder("trimEnd") = {}
              /\ hitsUnder("trim") = {}
        /\ mRes.fuzz = 1000 => mRes.idx <= least(punctHits)

\* A dash look-alike located on rung 4
C10_Witness ==
    /\ pc = "m_core" /\ mCtx # <<>> /\ punctHits # {}
    /\ mRes.fuzz = 1000 /\ mRes.idx = least(punctHits)

-----------------------------------------------------------------------------
(* Properties of process_patch, checked under Spec.                        *)

\* The call has a text of one Update of file a without header lines: its
\* first two lines and its last are the two markers and the directive
oneUpdate ==
    /\ pathA \in DOMAIN orig
    /\ Len(split(text)) >= 3
    /\ split(text)[1] = Begin
    /\ split(text)[2] = UPDATE_FILE_PREFIX \o pathA
    /\ split(text)[Len(split(text))] = End

\* The lines between the directive and the suffix, without the End of File
\* marker if it closes them
hunkLines == SubSeq(split(text), 3, Len(split(text)) - 1)
hunkEof == hunkLines # <<>> /\ hunkLines[Len(hunkLines)] = EndOfFile
hunkBody ==
    IF hunkEof THEN SubSeq(hunkLines, 1, Len(hunkLines) - 1) ELSE hunkLines

isContext(l) == l # <<>> /\ l[1] = " "
isDelete(l) == l # <<>> /\ l[1] = "-"
isInsert(l) == l # <<>> /\ l[1] = "+"
\* A line of a hunk that starts with none of the three prefixes and is no
\* marker of the format
isPlain(l) ==
    /\ l # <<>>
    /\ ~isContext(l) /\ ~isDelete(l) /\ ~isInsert(l)
    /\ ~startsWith(l, <<"*", "*", "*">>) /\ ~startsWith(l, <<"@", "@">>)

stripPrefix(l) == slice(l, 1)
RECURSIVE oldOf(_)
\* The context and deleted lines of a body, in order, without prefix; a
\* plain line counts as context
oldOf(body) ==
    IF body = <<>> THEN <<>>
    ELSE IF isContext(body[1]) \/ isDelete(body[1])
    THEN <<stripPrefix(body[1])>> \o oldOf(Tail(body))
    ELSE IF isPlain(body[1]) THEN <<body[1]>> \o oldOf(Tail(body))
    ELSE oldOf(Tail(body))

RECURSIVE newOf(_)
\* The context and inserted lines of a body, in order, without prefix
newOf(body) ==
    IF body = <<>> THEN <<>>
    ELSE IF isContext(body[1]) \/ isInsert(body[1])
    THEN <<stripPrefix(body[1])>> \o newOf(Tail(body))
    ELSE newOf(Tail(body))

origLines == split(orig[pathA])

\* The positions where the lines old are a contiguous slice of the original
slicesOf(old) ==
    {i \in 0..(Len(origLines) - Len(old)) :
        SubSeq(origLines, i + 1, i + Len(old)) = old}

\* A hunk of prefixed lines with a change, whose context and deleted lines
\* are a contiguous slice of the original
exactHunk ==
    /\ oneUpdate /\ ~hunkEof /\ hunkBody # <<>>
    /\ \A i \in 1..Len(hunkBody) :
          isContext(hunkBody[i]) \/ isDelete(hunkBody[i])
              \/ isInsert(hunkBody[i])
    /\ \E i \in 1..Len(hunkBody) : ~isContext(hunkBody[i])
    /\ slicesOf(oldOf(hunkBody)) # {}

\* The original with the slice at i replaced by the new lines of the body
patched(i) ==
    join(SubSeq(origLines, 1, i) \o newOf(hunkBody)
         \o slice(origLines, i + Len(oldOf(hunkBody))))

\* C1: for a hunk whose context and deleted lines equal a contiguous slice
\* of the original, text_to_patch succeeds with fuzz 0 and patch_to_commit
\* yields the original with the deleted lines replaced by the inserted ones.
C1_ExactHunkApplies ==
    exactHunk =>
        /\ pc = "done" => err = NoError
        /\ pc = "patch_to_commit" => parser.fuzz = 0
        /\ pc = "apply_commit" =>
              /\ Len(commit) = 1
              /\ \E i \in slicesOf(oldOf(hunkBody)) :
                    commit[1].new_content = patched(i)

\* A hunk of prefixed lines whose context the matcher finds under no rung
unmatchedHunk ==
    /\ oneUpdate /\ hunkBody # <<>>
    /\ \A i \in 1..Len(hunkBody) :
          isContext(hunkBody[i]) \/ isDelete(hunkBody[i])
              \/ isInsert(hunkBody[i])
    /\ find_context(origLines, oldOf(hunkBody), 0, hunkEof).idx = -1

\* C2: when the context of a hunk matches under no rung, text_to_patch
\* raises InvalidContext (InvalidEOFContext with the End of File marker)
\* and process_patch calls neither the write nor the remove callback.
C2_InvalidContext ==
    unmatchedHunk =>
        /\ pc \notin {"patch_to_commit", "apply_commit"}
        /\ calls = <<>>
        /\ pc = "done" =>
              err = DiffError(IF hunkEof THEN "Invalid EOF Context"
                              ELSE "Invalid Context")

\* A hunk of context lines that the original holds at two or more places,
\* all of them more than 2 lines after the cursor
ambiguousHunk ==
    /\ oneUpdate /\ ~hunkEof /\ hunkBody # <<>>
    /\ \A i \in 1..Len(hunkBody) : isContext(hunkBody[i])
    /\ Cardinality(slicesOf(oldOf(hunkBody))) >= 2
    /\ \A i \in slicesOf(oldOf(hunkBody)) : i > 2

\* C3: when the original holds the context of a hunk at two places, none
\* within 2 lines of the cursor, text_to_patch raises InvalidContext and no
\* file is written: the engine picks neither place.
C3_AmbiguityRejected ==
    ambiguousHunk =>
        /\ pc \notin {"patch_to_commit", "apply_commit"}
        /\ calls = <<>>
        /\ pc = "done" => err = DiffError("Invalid Context")

\* C4: every iteration of the hunk loop of parse_update_file advances the
\* index of the patch lines by at least one or raises an error.
C4_HunkLoopAdvances ==
    (pc = "parse_update_file" /\ ~is_done(parser, UpdateEnds)) =>
        \/ parse_update_hunk(parser, upd).err # NoError
        \/ parse_update_hunk(parser, upd).parser.index > parser.index

\* C5: a call fails with a DiffError only, unless a callback itself threw.
C5_OnlyDiffError ==
    (pc = "done" /\ err # NoError) =>
        \/ err.class = "DiffError"
        \/ err = [class |-> "Error", what |-> "ENOENT"]

\* A hunk of context lines of which one or more lack the leading space
plainHunk ==
    /\ oneUpdate /\ ~hunkEof
    /\ \A i \in 1..Len(hunkBody) :
          isContext(hunkBody[i]) \/ isPlain(hunkBody[i])
    /\ \E i \in 1..Len(hunkBody) : isPlain(hunkBody[i])

\* C6: a line of a hunk that starts with none of ' ', '+', '-' is a context
\* line: the expected old slice of the hunk holds it, as it holds the same
\* line with a leading space.
C6_PlainLineIsContext ==
    (plainHunk /\ pc = "parse_update_file" /\ parser.index = 2) =>
        peek_next_section(parser.lines, parser.index).old = oldOf(hunkBody)

-----------------------------------------------------------------------------
(* Properties of text_to_patch, checked under Spec.                        *)

\* text_to_patch has returned its Patch and fuzz
returned ==
    \/ pc = "patch_to_commit"
    \/ entry = "text_to_patch" /\ pc = "done" /\ err = NoError

\* White space a context line may carry at its end
TrailPool == {<<>>, <<" ">>, <<"<TAB>">>, <<" ", " ">>, <<"U+00A0">>}

\* The 1-based positions of the context lines of a patch text
contextAt(txt) ==
    {i \in 1..Len(split(txt)) : isContext(split(txt)[i])}

\* The line l with w for its trailing white space
retrail(l, w) == <<" ">> \o trimEnd(stripPrefix(l)) \o w

\* The texts that differ from txt in the trailing white space of exactly
\* one context line
variantsOf(txt) ==
    {join([split(txt) EXCEPT ![i] = retrail(@, w)]) :
        i \in contextAt(txt), w \in TrailPool} \ {txt}

\* Some context line of the text ends in white space
trailing ==
    \E i \in contextAt(text) :
        trimEnd(stripPrefix(split(text)[i])) # stripPrefix(split(text)[i])

\* C11 as stated: a patch that differs from a patch P in the trailing white
\* space of one context line parses with a fuzz of at least that of P plus
\* one, hence of at least one.
C11_FuzzGrows == (returned /\ trailing) => parser.fuzz >= 1

\* C11 as amended: every patch that differs from the parsed one in the
\* trailing white space of one context line is sanitised to the very lines
\* the Parser was given, the precondition of the same Patch and fuzz.
C11_SameLines ==
    returned => \A v \in variantsOf(text) : patchLines(v) = parser.lines

C11_Witness ==
    /\ returned /\ trailing /\ variantsOf(text) # {}
    /\ parser.fuzz = 0

\* The lines of the text before repair_hunk_headers
cleaned(txt) ==
    strip_control_chars(sanitize_patch_lines(split(trim(replaceCRLF(txt)))))

\* The header repairer rewrote a hunk header of the text
headerRepaired == repair_hunk_headers(cleaned(text)) # cleaned(text)

\* The positions of the original whose line is the anchor a after folding
foldsTo(a) ==
    {i \in 1..Len(origLines) : canonLocal(origLines[i]) = canonLocal(a)}

\* The first hunk of the one Update opens with "@@ <anchor>", and the line
\* of the original the anchor is found at equals it only after the Unicode
\* folding
anchorFolded ==
    /\ Len(parser.lines) >= 4
    /\ startsWith(parser.lines[3], <<"@", "@", " ">>)
    /\ foldsTo(slice(parser.lines[3], 3)) # {}
    /\ origLines[least(foldsTo(slice(parser.lines[3], 3)))]
           # slice(parser.lines[3], 3)

\* C12: a parse that succeeded after a recovered deviation, here a repaired
\* hunk header or an anchor met by Unicode folding, returns a fuzz above 0.
C12_RecoveryCounted ==
    (returned /\ oneUpdate /\ (headerRepaired \/ anchorFolded)) =>
        parser.fuzz > 0

\* The path a directive line names, <<>> for any other line
directivePath(l) ==
    IF startsWith(l, UPDATE_FILE_PREFIX)
    THEN slice(l, Len(UPDATE_FILE_PREFIX))
    ELSE IF startsWith(l, DELETE_FILE_PREFIX)
    THEN slice(l, Len(DELETE_FILE_PREFIX))
    ELSE IF startsWith(l, ADD_FILE_PREFIX)
    THEN slice(l, Len(ADD_FILE_PREFIX))
    ELSE <<>>

\* Two directives of the block name the same path
duplicated(lines) ==
    \E i, j \in 1..Len(lines) :
        /\ i < j
        /\ directivePath(lines[i]) # <<>>
        /\ directivePath(lines[i]) = directivePath(lines[j])

\* The Parser has thrown: the call ended before the index reached the
\* end of the lines
failed ==
    pc = "done" /\ err # NoError /\ parser.index < Len(parser.lines)

\* The directive under the cursor names the path of an action of the Patch
atDuplicate ==
    /\ pc = "parse" /\ ~is_done(parser, DocumentEnds)
    /\ directivePath(parser.lines[parser.index + 1]) # <<>>
    /\ \E i \in 1..Len(parser.actions) :
          parser.actions[i].path
              = directivePath(parser.lines[parser.index + 1])

\* C13 as stated: a block in which two directives name the same path makes
\* text_to_patch fail with the Duplicate Path error.
C13_DuplicatePath ==
    ((returned \/ failed) /\ duplicated(parser.lines)) =>
        err = DiffError("Duplicate Path")

\* C13 as amended: the actions of the Patch have pairwise different paths,
\* no Patch is returned for a block in which two directives name the same
\* path, and the Parser raises Duplicate Path at a directive that names
\* the path of an action it already holds.
C13_NoDuplicateReturned ==
    /\ [](\A i, j \in 1..Len(parser.actions) :
            parser.actions[i].path = parser.actions[j].path => i = j)
    /\ [](returned => ~duplicated(parser.lines))
    /\ [][atDuplicate =>
            pc' = "done" /\ err' = DiffError("Duplicate Path")]_vars

C13_Witness ==
    /\ failed /\ duplicated(parser.lines)
    /\ err = DiffError("Duplicate Path")
    /\ parser.actions # <<>>

\* The Parser is at a directive that names no path of an earlier one
atDirective ==
    /\ pc = "parse" /\ ~is_done(parser, DocumentEnds)
    /\ directivePath(parser.lines[parser.index + 1]) # <<>>
    /\ ~atDuplicate

\* The originals hold the path of the directive under the cursor
loaded == directivePath(parser.lines[parser.index + 1]) \in DOMAIN orig

\* C14: an Update File or Delete File directive whose path is no key of the
\* originals ends the parse with Missing File, and an Add File directive
\* whose path is a key of the originals ends it with File already exists.
C14_MissingOrExists ==
    [][/\ (/\ atDirective /\ ~loaded
            /\ ~startsWith(parser.lines[parser.index + 1], ADD_FILE_PREFIX))
           => pc' = "done" /\ err' = DiffError("Missing File")
       /\ (/\ atDirective /\ loaded
            /\ startsWith(parser.lines[parser.index + 1], ADD_FILE_PREFIX))
           => pc' = "done" /\ err' = DiffError("File already exists")]_vars

\* C15: the empty patch parses without error to a Patch of no action with
\* fuzz 0, its Commit holds no change, no write and no remove callback is
\* invoked, and no step changes a file, whatever files there are.
C15_EmptyPatchIsIdentity ==
    /\ [](text = EmptyPatch =>
            /\ err = NoError
            /\ parser.actions = <<>> /\ parser.fuzz = 0
            /\ commit = <<>> /\ calls = <<>>)
    /\ [][text = EmptyPatch => fs' = fs]_vars

C15_Witness ==
    /\ text = EmptyPatch /\ entry = "process_patch" /\ pc = "done"
    /\ DOMAIN fs = {pathA, pathB}
    /\ parser.index = 2

-----------------------------------------------------------------------------
(* Properties of process_patch and of the commit, checked under Spec.      *)

\* The path and the content of the Add File patch in text
addedPath == directivePath(split(text)[2])
addedContent ==
    join([i \in 1..(Len(split(text)) - 3) |->
              stripPrefix(split(text)[i + 2])])

\* C16: on an empty filesystem, after the patch Add File p with content C
\* the filesystem holds exactly p = C, and after the patch Delete File p
\* that follows it the filesystem is empty again.
C16_AddDeleteSymmetry ==
    entry = "loop" =>
        /\ (pc = "loop" /\ Len(blocks) = 1) =>
               fs = [q \in {addedPath} |-> addedContent]
        /\ pc = "done" => err = NoError /\ fs = <<>>

AbsolutePath == DiffError("We do not support absolute paths.")

\* The path a change of the commit writes to
writeTarget(c) ==
    IF c.type = "update" /\ c.move_path # <<>> THEN c.move_path ELSE c.path

\* The commit holds a change that writes to an absolute path
absoluteTarget ==
    \E i \in 1..Len(commit) :
        commit[i].type # "delete" /\ isAbsolute(writeTarget(commit[i]))

\* C17: whatever write callback the caller supplied, a write to an
\* absolute path is rejected with the AbsolutePath error, and a patch with
\* an absolute write target ends in that error.
C17_AbsoluteRejected ==
    /\ \A i \in 1..Len(calls) :
          (calls[i].op = "write" /\ isAbsolute(calls[i].path)) =>
              err = AbsolutePath
    /\ (pc = "done" /\ absoluteTarget) => err = AbsolutePath

\* The final contents a commit stands for, as the entries of updatedFiles
updatedOf(c) ==
    [i \in 1..Len(c) |->
        [path |-> c[i].path, def |-> c[i].type # "delete",
         content |-> c[i].new_content]]

\* Every change of the commit c that has both contents changes the content
allChanged(c) ==
    \A i \in 1..Len(c) :
        c[i].type = "update" => c[i].old_content # c[i].new_content

\* C18: a change of a Commit with both contents set has an old content
\* that differs from its new content, in the Commit patch_to_commit built
\* and in the Commit assemble_changes builds from the same contents.
C18_NoUnchangedPath ==
    /\ allChanged(commit)
    /\ allChanged(assemble_changes(orig, updatedOf(commit)))

-----------------------------------------------------------------------------
(* Properties of the block splitter of the CLI, checked under Spec.        *)

\* The first line at or after i that is the end marker, 0 when none is
firstEnd(lines, i) ==
    IF \E j \in i..Len(lines) : lines[j] = End
    THEN CHOOSE j \in i..Len(lines) :
             lines[j] = End /\ \A k \in i..(j - 1) : lines[k] # End
    ELSE 0

\* The regions of lines from the i-th line on, in input order: from a
\* line equal to the begin marker to the next end marker, both included
RECURSIVE regionsFrom(_, _)
regionsFrom(lines, i) ==
    IF i > Len(lines) THEN <<>>
    ELSE IF lines[i] = Begin /\ firstEnd(lines, i) > 0
    THEN <<join(SubSeq(lines, i, firstEnd(lines, i)))>>
             \o regionsFrom(lines, firstEnd(lines, i) + 1)
    ELSE regionsFrom(lines, i + 1)

\* C20: the blocks the CLI gets from split_patch_blocks are, in input
\* order, the regions of its input from a line equal to "*** Begin Patch"
\* to the next "*** End Patch" line, marker lines included, and nothing
\* else.
C20_BlocksAreRegions ==
    [][(pc = "main" /\ pc' = "loop")
          => blocks' = regionsFrom(split(replaceCRLF(patchText)), 1)]_vars

\* Some begin marker of lines is followed by no end marker before the next
\* begin marker or the end of the input
unmatchedBegin(lines) ==
    \E i \in 1..Len(lines) :
        /\ lines[i] = Begin
        /\ \/ firstEnd(lines, i) = 0
           \/ \E k \in (i + 1)..firstEnd(lines, i) : lines[k] = Begin

\* C21: when some "*** Begin Patch" line of the CLI's input has no
\* matching "*** End Patch" line, split_patch_blocks fails with
\* "Unterminated patch block" and the CLI goes no further.
C21_UnterminatedFails ==
    [][(pc = "main" /\ unmatchedBegin(split(replaceCRLF(patchText))))
          => (pc' = "done" /\ err' = Unterminated)]_vars

-----------------------------------------------------------------------------
(* Properties of the CLI, checked under Spec.                              *)

\* The blocks of the CLI's input
inputBlocks == regionsFrom(split(replaceCRLF(patchText)), 1)

\* The first k blocks of bs were handed to process_patch, in input order,
\* the k-th last, and the others wait in input order
takenInOrder(bs, k) ==
    /\ blocks = SubSeq(bs, k + 1, Len(bs))
    /\ k > 0 => text = bs[k]

\* C22: the CLI hands the blocks of its input to process_patch strictly in
\* input order, and it ends without an error ("Done!") only when every
\* block was handed over and applied; after a failing block no later block
\* is taken.
C22_BlocksInOrder ==
    /\ (entry = "cli" /\ pc # "main" /\ ~(pc = "done" /\ err # NoError))
          => \E k \in 0..Len(inputBlocks) : takenInOrder(inputBlocks, k)
    /\ (entry = "cli" /\ pc = "done" /\ err = NoError)
          => takenInOrder(inputBlocks, Len(inputBlocks))

-----------------------------------------------------------------------------
(* Properties of the sanitiser stage of text_to_patch, checked under Spec. *)

\* Hunk headers "@@ -S,D +S2,I @@" written with a comma or a space before
\* each count or without the count (<<>>), each with its canonical form
Nums == {<<"1">>, <<"3">>}
countOf(sep, n) == IF n = <<>> THEN <<>> ELSE <<sep>> \o n
headerOf(S, sep1, D, S2, sep2, I) ==
    <<"@", "@", " ", "-">> \o S \o countOf(sep1, D) \o <<" ", "+">> \o S2
        \o countOf(sep2, I) \o <<" ", "@", "@">>
zeroIfMissing(n) == IF n = <<>> THEN <<"0">> ELSE n
HeaderForms ==
    {[typo |-> headerOf(S, sep1, D, S2, sep2, I),
      canon |-> headerOf(S, ",", zeroIfMissing(D), S2, ",", zeroIfMissing(I))] :
        S \in Nums, sep1 \in {" ", ","}, D \in Nums \cup {<<>>},
        S2 \in Nums, sep2 \in {" ", ","}, I \in Nums \cup {<<>>}}
canonOf(l) == (CHOOSE f \in HeaderForms : f.typo = l).canon
isHeaderForm(l) == \E f \in HeaderForms : f.typo = l

\* The one Update of the text opens with a header lacking a count or with
\* a space before one, over a hunk of context, deleted and inserted lines
\* whose old lines are a slice of the original
typoHunk ==
    /\ oneUpdate /\ Len(hunkBody) >= 2 /\ ~hunkEof
    /\ isHeaderForm(hunkBody[1]) /\ canonOf(hunkBody[1]) # hunkBody[1]
    /\ \A i \in 2..Len(hunkBody) :
          isContext(hunkBody[i]) \/ isDelete(hunkBody[i])
              \/ isInsert(hunkBody[i])
    /\ slicesOf(oldOf(Tail(hunkBody))) # {}

\* The lines the Parser was given are the cleaned lines, each header form
\* in its canonical form and every other line as it was
repairedOnly ==
    /\ Len(parser.lines) = Len(cleaned(text))
    /\ \A i \in 1..Len(parser.lines) :
          parser.lines[i] = IF isHeaderForm(cleaned(text)[i])
                            THEN canonOf(cleaned(text)[i])
                            ELSE cleaned(text)[i]

\* C23: a hunk header with a missing count or a space for the comma
\* reaches the Parser in the canonical form with 0 for each missing
\* count, every other line reaches it unchanged, and text_to_patch then
\* parses the Update hunk under such a header without an error, also when
\* the hunk inserts or deletes lines.
C23_HeaderRepair ==
    /\ parser.lines # <<>> => repairedOnly
    /\ (entry = "text_to_patch" /\ pc = "done" /\ typoHunk) => err = NoError

\* The lines of the text as text_to_patch splits it, before and after the
\* removal of the text's outer white space
rawLines == split(replaceCRLF(text))
trimmedLines == split(trim(replaceCRLF(text)))

\* The token regex, as the list of the prefixes it accepts
isToken(l) ==
    \E p \in {<<"*", "*", "*">>, <<"-", "-", "-">>, <<"+", "+", "+">>,
              <<"@", "@">>, <<" ">>, <<"+">>, <<"-">>} : startsWith(l, p)

\* The white space a line begins with
leading(l) == SubSeq(l, 1, Len(l) - Len(trimStart(l)))
visible(c) == c \notin ControlChars
blank(l) == trimStart(l) = <<>>

\* text_to_patch ran its sanitiser on the text and handed lines on
sanitised == parser.lines # <<>>

\* out has one line for each line of kept, in order, with no character
\* that the line of kept does not have in that place
subsequenceOf(out, kept) ==
    /\ Len(out) = Len(kept)
    /\ \A i \in 1..Len(out) : startsWith(SelectSeq(kept[i], visible), out[i])

\* Every line of out begins with the white space its line of kept begins
\* with
leadingKept(out, kept) ==
    \A i \in 1..Len(out) : startsWith(out[i], leading(kept[i]))

\* The same, control characters apart, for the lines of kept that hold a
\* character that is no white space
leadingKeptUnlessBlank(out, kept) ==
    \A i \in 1..Len(out) :
        ~blank(kept[i]) =>
            startsWith(out[i], SelectSeq(leading(kept[i]), visible))

\* C24 as stated: the sanitiser stage keeps exactly the token lines of its
\* input, in order, introduces nothing, and every kept line begins with
\* the white space it began with in the input.
C24_LeadingKept ==
    sanitised =>
        /\ subsequenceOf(cleaned(text), SelectSeq(rawLines, isToken))
        /\ leadingKept(cleaned(text), SelectSeq(rawLines, isToken))

\* C24, amended: the same of the lines of the text without its outer white
\* space, where a kept line begins with the white space it began with,
\* control characters apart, if it holds a character that is no white
\* space.
C24_LeadingKeptUnlessBlank ==
    sanitised =>
        /\ subsequenceOf(cleaned(text), SelectSeq(trimmedLines, isToken))
        /\ leadingKeptUnlessBlank(cleaned(text),
                                  SelectSeq(trimmedLines, isToken))

\* A line that is no token was dropped, a blank line was kept and emptied,
\* and a control character was taken out of a line kept
C24_Witness ==
    /\ sanitised
    /\ Len(cleaned(text)) < Len(trimmedLines)
    /\ \E i \in 1..Len(cleaned(text)) :
          /\ cleaned(text)[i] = <<>>
          /\ SelectSeq(trimmedLines, isToken)[i] = <<" ">>
    /\ \E i \in 1..Len(cleaned(text)) :
          /\ cleaned(text)[i] # SelectSeq(trimmedLines, isToken)[i]
          /\ ~blank(SelectSeq(trimmedLines, isToken)[i])

-----------------------------------------------------------------------------
(* Properties of apply_commit, checked under Spec.                         *)

\* The state is of one call of process_patch, whose calls are of one commit
oneCommit == entry = "process_patch"

\* The filesystem after apply_commit took the changes of c in turn from
\* the k-th on, up to the first call that fails
RECURSIVE applyFrom(_, _, _, _)
applyFrom(fn, files, c, k) ==
    IF k > Len(c) THEN files
    ELSE IF applyChange(fn, files, <<>>, c[k]).err # NoError
    THEN applyChange(fn, files, <<>>, c[k]).fs
    ELSE applyFrom(fn, applyChange(fn, files, <<>>, c[k]).fs, c, k + 1)

\* The iteration orders over the changes of c
ordersOf(c) ==
    {[i \in 1..Len(c) |-> c[f[i]]] :
        f \in {g \in [1..Len(c) -> 1..Len(c)] :
                  \A i, j \in 1..Len(c) : g[i] = g[j] => i = j}}

\* C25: apply_commit calls write or remove at most once for each path of
\* the filesystem, and the filesystem it leaves is the same for every
\* order in which the changes of the commit are taken.
C25_EachPathOnce ==
    /\ oneCommit =>
          \A i, j \in 1..Len(calls) :
              calls[i].path = calls[j].path => i = j
    /\ (oneCommit /\ pc = "apply_commit" /\ applied = 0) =>
          \A c \in ordersOf(commit) :
              applyFrom(writeFn, fs, c, 1) = applyFrom(writeFn, fs, commit, 1)

\* The i-th action of the Patch is an Update with a Move-to path
movedAt(i) ==
    /\ parser.actions[i].type = "update"
    /\ parser.actions[i].move_path # <<>>

\* The filesystem holds the content at the path m and no file at p
movedTo(m, content, p) ==
    /\ m \in DOMAIN fs /\ fs[m] = content
    /\ p \notin DOMAIN fs

\* C26: the change patch_to_commit records for an Update with a Move-to
\* path m carries move_path = m, and when apply_commit has returned the
\* filesystem holds the new content at m and no file at the source path.
C26_MoveApplied ==
    /\ commit # <<>> =>
          \A i \in 1..Len(parser.actions) :
              movedAt(i) =>
                  /\ commit[i].path = parser.actions[i].path
                  /\ commit[i].move_path = parser.actions[i].move_path
    /\ (oneCommit /\ pc = "done" /\ err = NoError) =>
          \A i \in 1..Len(commit) :
              (commit[i].type = "update" /\ commit[i].move_path # <<>>) =>
                  movedTo(commit[i].move_path, commit[i].new_content,
                          commit[i].path)

\* The effect on the filesystem of a call that completed
effect(files, call) ==
    IF call.op = "write" THEN write(files, call.path, call.content)
    ELSE remove(files, call.path)

RECURSIVE effects(_, _)
effects(files, cs) ==
    IF cs = <<>> THEN files ELSE effects(effect(files, cs[1]), Tail(cs))

\* The calls a step adds to the log, and those of them that completed: all
\* but the last when the step ends in an error
newCalls == SubSeq(calls', Len(calls) + 1, Len(calls'))
completed ==
    IF err' # NoError /\ newCalls # <<>>
    THEN SubSeq(newCalls, 1, Len(newCalls) - 1)
    ELSE newCalls

\* C27: a write or remove callback that fails ends apply_commit at once:
\* no call follows it, and every step leaves the filesystem with the
\* effects of the calls that completed, the failing call having none.
C27_FailurePropagates ==
    /\ [][Len(calls') >= Len(calls) /\ fs' = effects(fs, completed)]_vars
    /\ [][(pc = "apply_commit" /\ err' # NoError) => pc' = "done"]_vars
    /\ [][err # NoError => (calls' = calls /\ fs' = fs)]_vars

\* A write failed after another write had completed, the remove that
\* follows it in the same change was not called and the file it was to
\* remove is still there
C27_Witness ==
    /\ oneCommit /\ pc = "done" /\ err # NoError
    /\ Len(calls) = 2
    /\ calls[1].path = pathB /\ pathB \in DOMAIN fs
    /\ calls[2].path = absB /\ absB \notin DOMAIN fs
    /\ pathA \in DOMAIN fs
    /\ commit[2].type = "update" /\ commit[2].path = pathA

\* C28: no line that text_to_patch hands to the Parser ends in white
\* space, a line with a control character after white space included.
C28_RightTrimmed ==
    \A i \in 1..Len(parser.lines) :
        parser.lines[i] = trimEnd(parser.lines[i])

\* The text with every line ending, "\r\n" or "\r" alone, written "\n"
crToLF(c) == IF c = "<CR>" THEN "<LF>" ELSE c
withLF(txt) == [i \in 1..Len(replaceCRLF(txt)) |-> crToLF(replaceCRLF(txt)[i])]

\* text_to_patch has split and cleaned the text
split_done == entry = "text_to_patch" /\ pc # "text_to_patch"

\* C29: text_to_patch takes "\r\n" and "\r" alone for line ends: it
\* gets from a text the lines it gets from the same text written with
\* "\n" line ends.
C29_BareCRSeparates ==
    split_done => patchLines(text) = patchLines(withLF(text))

-----------------------------------------------------------------------------
(* Properties of the "@@ <text>" anchor, checked under Spec.               *)

\* The Parser is in an Update at a header "@@ <text>" with a text that is
\* not blank, and the hunk is the header alone: the step that takes it
\* moves the cursor by the anchor only
atAnchor ==
    /\ pc = "parse_update_file"
    /\ parser.index + 2 <= Len(parser.lines)
    /\ startsWith(parser.lines[parser.index + 1], <<"@", "@", " ">>)
    /\ trim(slice(parser.lines[parser.index + 1], 3)) # <<>>
    /\ \/ startsWith(parser.lines[parser.index + 2], <<"@", "@">>)
       \/ parser.lines[parser.index + 2] = End
anchorText == slice(parser.lines[parser.index + 1], 3)

\* The 0-based positions before and from the cursor whose line is the
\* text: as it stands, after trimming both, and each after the folding of
\* punctuation
sameAs(l, t, trimmed, folded) ==
    IF trimmed /\ folded THEN canon(trim(l)) = canon(trim(t))
    ELSE IF trimmed THEN trim(l) = trim(t)
    ELSE IF folded THEN canon(l) = canon(t)
    ELSE l = t
behind(trimmed, folded) ==
    {i \in 0..(upd.index - 1) :
        sameAs(upd.fileLines[i + 1], anchorText, trimmed, folded)}
ahead(trimmed, folded) ==
    {i \in upd.index..(Len(upd.fileLines) - 1) :
        sameAs(upd.fileLines[i + 1], anchorText, trimmed, folded)}

\* The step moves the cursor to i and adds f to fuzz
cursorTo(i, f) == upd'.index = i /\ parser'.fuzz = parser.fuzz + f

\* C30 as stated: the cursor goes just past the first line from the cursor
\* on that is the text, with fuzz unchanged, or else that is the text
\* after trimming, with fuzz + 1, whatever precedes the cursor; it stays
\* when no line from the cursor on matches, and never moves backwards.
C30_AnchorAdvances ==
    [][atAnchor =>
          /\ IF ahead(FALSE, FALSE) # {}
             THEN cursorTo(least(ahead(FALSE, FALSE)) + 1, 0)
             ELSE IF ahead(TRUE, FALSE) # {}
             THEN cursorTo(least(ahead(TRUE, FALSE)) + 1, 1)
             ELSE cursorTo(upd.index, 0)
          /\ upd'.index >= upd.index]_vars

\* C30, amended: the lines are compared after the folding of punctuation,
\* and a search is made only when no line before the cursor is the text
\* under the same comparison; a line that is the text as it stands is
\* found with fuzz unchanged, a match that needs trimming adds 1.
C30_AnchorAdvancesUnlessBehind ==
    [][atAnchor =>
          /\ IF behind(FALSE, TRUE) = {} /\ ahead(FALSE, TRUE) # {}
             THEN upd'.index = least(ahead(FALSE, TRUE)) + 1
             ELSE IF behind(TRUE, TRUE) = {} /\ ahead(TRUE, TRUE) # {}
             THEN cursorTo(least(ahead(TRUE, TRUE)) + 1, 1)
             ELSE cursorTo(upd.index, 0)
          /\ ahead(FALSE, FALSE) # {} => parser'.fuzz = parser.fuzz
          /\ upd'.index >= upd.index]_vars

\* The Parser has passed a header whose text is a line before the cursor
\* and a line after it, and the cursor stayed between the two
C30_Witness ==
    /\ pc = "parse_update_file"
    /\ upd.index = 1 /\ upd.fileLines = << <<"x">>, <<"x">> >>
    /\ parser.index = 4
    /\ parser.lines[3] = <<"@", "@", " ", "x">>
    /\ parser.lines[4] = <<"@", "@", " ", "x">>
    /\ parser.fuzz = 0

-----------------------------------------------------------------------------
(* Properties of the hunks of an Update, checked under Spec.               *)

\* The Parser was given one Update of the file a whose hunk opens with the
\* header "@@ -1,1 +1,1 @@"; the lines under the header
countedHeader == <<"@", "@", " ", "-", "1", ",", "1", " ", "+", "1", ",", "1",
                   " ", "@", "@">>
underHeader == SubSeq(parser.lines, 4, Len(parser.lines) - 1)
countedHunk ==
    /\ pathA \in DOMAIN orig
    /\ Len(parser.lines) >= 5
    /\ parser.lines[2] = UPDATE_FILE_PREFIX \o pathA
    /\ parser.lines[3] = countedHeader
    /\ parser.lines[Len(parser.lines)] = End

\* The lines under the header are one run of deleted and inserted lines,
\* whose deleted lines are the original
oneChunk ==
    /\ \A i \in 1..Len(underHeader) :
          isDelete(underHeader[i]) \/ isInsert(underHeader[i])
    /\ oldOf(underHeader) = origLines

\* C31: under a header with the counts D = 1 and I = 1, a chunk with
\* another number of deleted or of inserted lines is rejected with "Hunk
\* counts mismatch", and a chunk with one deleted and one inserted line is
\* accepted.
C31_CountsChecked ==
    (entry = "text_to_patch" /\ pc = "done" /\ countedHunk /\ oneChunk) =>
        IF /\ Len(SelectSeq(underHeader, isDelete)) = 1
           /\ Len(SelectSeq(underHeader, isInsert)) = 1
        THEN err = NoError
        ELSE err = DiffError("Hunk counts mismatch")

\* The Parser stands at the first line of the only section of one Update:
\* lines with the prefixes ' ', '-' and '+' up to the end of the patch
atSection ==
    /\ pc = "parse_update_file" /\ parser.index = 2
    /\ Len(parser.lines) >= 4
    /\ parser.lines[Len(parser.lines)] = End
    /\ \A i \in 3..(Len(parser.lines) - 1) :
          isContext(parser.lines[i]) \/ isDelete(parser.lines[i])
              \/ isInsert(parser.lines[i])
sectionLines == SubSeq(parser.lines, 3, Len(parser.lines) - 1)

\* The chunk of a run of deleted lines del and inserted lines ins that
\* follows the old lines before
chunkOf(before, del, ins) ==
    [orig_index |-> Len(before), del_lines |-> del, ins_lines |-> ins]

\* The chunks of the lines ls from the i-th on: one for each run of '-'
\* and '+' lines, closed by a context line or by the end of the section;
\* before are the old lines ahead of the run, del and ins the run so far
RECURSIVE chunksFrom(_, _, _, _, _)
chunksFrom(ls, i, before, del, ins) ==
    IF i > Len(ls)
    THEN IF del # <<>> \/ ins # <<>> THEN <<chunkOf(before, del, ins)>>
         ELSE <<>>
    ELSE IF isDelete(ls[i])
    THEN chunksFrom(ls, i + 1, before, Append(del, stripPrefix(ls[i])), ins)
    ELSE IF isInsert(ls[i])
    THEN chunksFrom(ls, i + 1, before, del, Append(ins, stripPrefix(ls[i])))
    ELSE (IF del # <<>> \/ ins # <<>> THEN <<chunkOf(before, del, ins)>>
          ELSE <<>>)
         \o chunksFrom(ls, i + 1, Append(before \o del, stripPrefix(ls[i])),
                       <<>>, <<>>)

\* C32: peek_next_section returns one chunk for each run of '-' and '+'
\* lines of the section, with orig_index the number of old lines before
\* the run and with the run's deleted and inserted lines in order, and
\* returns as old the context and deleted lines of the section in order.
C32_ChunksOfSection ==
    atSection =>
        /\ peek_next_section(parser.lines, parser.index).err = NoError
        /\ peek_next_section(parser.lines, parser.index).chunks
               = chunksFrom(sectionLines, 1, <<>>, <<>>, <<>>)
        /\ peek_next_section(parser.lines, parser.index).old
               = oldOf(sectionLines)

(***************************************************************************)
(* Properties of patch_to_commit on a Patch whose Update carries chunks,   *)
(* checked under Spec                                                      *)
(***************************************************************************)

\* The chunks handed to patch_to_commit and the lines of the original
givenChunks == parser.actions[1].chunks
givenLines == split(orig[pathA])

\* Every chunk's deleted range lies in the original, and every chunk starts
\* at or after the end of the deleted range of the chunk before it
inRange(cs, ls) ==
    \A k \in 1..Len(cs) : cs[k].orig_index + Len(cs[k].del_lines) <= Len(ls)
ordered(cs) ==
    \A k \in 1..(Len(cs) - 1) :
        cs[k].orig_index + Len(cs[k].del_lines) <= cs[k + 1].orig_index

\* Original line i (0-based) lies in the deleted range of some chunk
deletedAt(cs, i) ==
    \E k \in 1..Len(cs) :
        cs[k].orig_index <= i /\ i < cs[k].orig_index + Len(cs[k].del_lines)

\* The ins_lines of the chunks placed at index i, in chunk order
insertedAt(cs, i) ==
    flatten([k \in 1..Len(SelectSeq(cs, LAMBDA c : c.orig_index = i)) |->
                SelectSeq(cs, LAMBDA c : c.orig_index = i)[k].ins_lines])

\* The original with each deleted range left out and each chunk's ins_lines
\* put in at the chunk's index
spliced(cs, ls) ==
    flatten([i \in 1..(Len(ls) + 1) |->
                insertedAt(cs, i - 1)
                  \o (IF i <= Len(ls) /\ ~deletedAt(cs, i - 1)
                      THEN <<ls[i]>> ELSE <<>>)])

RECURSIVE delCount(_), insCount(_)
delCount(cs) ==
    IF cs = <<>> THEN 0 ELSE Len(cs[1].del_lines) + delCount(Tail(cs))
insCount(cs) ==
    IF cs = <<>> THEN 0 ELSE Len(cs[1].ins_lines) + insCount(Tail(cs))

outOfRange(cs, ls, k) == cs[k].orig_index > Len(ls)
outOfOrder(cs, k) ==
    k > 1 /\ cs[k].orig_index < cs[k - 1].orig_index + Len(cs[k - 1].del_lines)
offenders(cs, ls) ==
    {k \in 1..Len(cs) : outOfRange(cs, ls, k) \/ outOfOrder(cs, k)}

\* C34: when some chunk's orig_index exceeds the original's line count or is
\* smaller than the cursor after the previous chunk's deletions,
\* patch_to_commit ends with a DiffError, that of the first such chunk
\* (ChunkOutOfRange before ChunkOrderViolation), and yields no Commit
C34_BadChunkFails ==
    (entry = "patch_to_commit" /\ pc = "done"
       /\ offenders(givenChunks, givenLines) # {})
    => /\ commit = <<>>
       /\ \E k \in {MinOr(offenders(givenChunks, givenLines), 0)} :
             err = IF outOfRange(givenChunks, givenLines, k)
                   THEN DiffError("ChunkOutOfRange")
                   ELSE DiffError("ChunkOrderViolation")

\* A second chunk that starts inside the range the first chunk deleted
C34_Witness ==
    /\ entry = "patch_to_commit" /\ pc = "done"
    /\ Len(givenChunks) = 2
    /\ ~outOfRange(givenChunks, givenLines, 1)
    /\ ~outOfRange(givenChunks, givenLines, 2)
    /\ outOfOrder(givenChunks, 2)
    /\ err = DiffError("ChunkOrderViolation") /\ commit = <<>>

(***************************************************************************)
(* Properties of the parser's directives, checked under Spec               *)
(***************************************************************************)

\* The parser stands in an Update just after an End-of-File marker it consumed
afterEofMarker ==
    /\ pc = "parse_update_file"
    /\ parser.index >= 1 /\ parser.index <= Len(parser.lines)
    /\ parser.lines[parser.index] = EndOfFile

\* C35: after the parser has consumed an End-of-File marker in an Update, its
\* next step ends the Update or fails; no further hunk is accepted for the file
C35_EofEndsUpdate ==
    [][afterEofMarker => (pc' = "parse" \/ err' # NoError)]_vars

\* The patch text is one Add of file b; addBody is the lines of its body
oneAdd ==
    /\ Len(split(text)) >= 3
    /\ split(text)[1] = Begin
    /\ split(text)[2] = ADD_FILE_PREFIX \o pathB
    /\ split(text)[Len(split(text))] = End
addBody == SubSeq(split(text), 3, Len(split(text)) - 1)

\* The body lines without their first character, joined by line feeds
plusRemoved(body) == join([i \in 1..Len(body) |-> slice(body[i], 1)])

\* C36: text_to_patch on a patch of one Add fails with "Invalid Add File
\* Line" when some body line of the text does not begin with "+", and
\* otherwise returns the Add whose new_file is every body line of the text
\* without its leading "+", joined by single line feeds
C36_AddBody ==
    (entry = "text_to_patch" /\ pc = "done" /\ oneAdd)
    => IF \E i \in 1..Len(addBody) :
              ~startsWith(addBody[i], HUNK_ADD_LINE_PREFIX)
       THEN err = DiffError("Invalid Add File Line")
       ELSE /\ err = NoError
            /\ Len(parser.actions) = 1
            /\ parser.actions[1].type = "add"
            /\ parser.actions[1].new_file = plusRemoved(addBody)

\* C38: process_patch never comes to apply an Add of a path that exists: a
\* patch with "Add File: p" for an existing p fails in the parser with "File
\* already exists", so no commit that is about to be applied holds an Add
\* change whose path is a file of the filesystem
C38_ExistingNotAdded ==
    (entry = "process_patch" /\ pc = "apply_commit" /\ applied = 0)
    => \A k \in 1..Len(commit) :
           commit[k].type = "add" => commit[k].path \notin DOMAIN fs

\* The paths of the Update and Delete actions of the parsed Patch: the paths
\* the parser looked up in the originals
lookedUp ==
    {parser.actions[k].path :
        k \in {i \in 1..Len(parser.actions) : parser.actions[i].type # "add"}}

\* The paths identify_files_needed returns for the patch text
needed ==
    {identify_files_needed(text)[k] :
        k \in 1..Len(identify_files_needed(text))}

\* The paths agree on every patch text that text_to_patch parses
samePaths ==
    (entry = "text_to_patch" /\ pc = "done" /\ err = NoError)
    => needed = lookedUp

\* process_patch fails with "File not found" or "Missing File" only for a
\* patch whose parsed Update File or Delete File lines name a path that is
\* no file of the filesystem
existingFound ==
    (entry = "process_patch" /\ pc = "done"
       /\ err \in {DiffError("File not found"), DiffError("Missing File")})
    => \E k \in 1..Len(patchLines(text)) :
          \E pre \in {UPDATE_FILE_PREFIX, DELETE_FILE_PREFIX} :
             /\ startsWith(patchLines(text)[k], pre)
             /\ slice(patchLines(text)[k], Len(pre)) \notin DOMAIN fs

\* C39: identify_files_needed returns exactly the paths that text_to_patch
\* looks up in the originals for the Update File and Delete File directives
\* of the same text, also with trailing whitespace or CRLF endings on the
\* directive lines, so that process_patch reports no existing file as missing
C39_AgreesWithParser == samePaths /\ existingFound

====
